---- MODULE Spec2Model ----
(***************************************************************************)
(* A model of python_base_command: the command execution contract          *)
(* (BaseCommand, LabelCommand), the dual-mode CommandParser, the two       *)
(* entry points run_from_argv and call_command, the OutputWrapper sinks,   *)
(* the CommandRegistry and the Runner with its commands directory.         *)
(*                                                                         *)
(* Conventions.                                                            *)
(*  - A Python str is a sequence of atomic text tokens; the newline is the *)
(*    token "\n", so concatenation is \o and endswith is a test of the     *)
(*    last token.  An Optional[str] is None or Str(s).                     *)
(*  - Every Python function is an operator that takes the state it may     *)
(*    change (the command instance and the event trace) and returns a      *)
(*    completion: a normal return, a raised exception, or sys.exit         *)
(*    (SystemExit, which no handler of the framework catches).             *)
(*  - The user-written callbacks handle() and handle_label() are inputs:   *)
(*    hb is what an overridden handle() does, hl what an overridden        *)
(*    handle_label() does for each label.                                  *)
(***************************************************************************)
EXTENDS Integers, Sequences, FiniteSets, TLC

\* ------------------------------------------------------------------ bounds
\* longest argument list (after the program name) handed to a parser
MaxArgv == 2
\* largest number of positional labels passed to call_command
MaxLabels == 2

\* ------------------------------------------------------------------ values
None == [none |-> TRUE, s |-> <<>>]
Str(s) == [none |-> FALSE, s |-> s]
\* Python truthiness of an Optional[str]
Truthy(v) == ~v.none /\ v.s # <<>>

NL == "\n"

\* a keyword dictionary is a function whose domain is the set of its keys
NoOptions == [k \in {} |-> FALSE]

\* streams a sink can wrap; NoStream is a None argument
NoStream == "None"
SysStdout == "sys.stdout"
SysStderr == "sys.stderr"
Buffers == {"buf"}

\* ------------------------------------------------------------------ exceptions
NoExc == [kind |-> "none", name |-> "", msg |-> <<>>, returncode |-> 0]

\* CommandError.__init__(*args, returncode=1): name is the class of the
\* instance (CommandError or a subclass of it)
CommandError(name, msg, returncode) ==
    [kind |-> "CommandError", name |-> name, msg |-> msg, returncode |-> returncode]

DefaultReturncode == 1

KeyboardInterrupt ==
    [kind |-> "KeyboardInterrupt", name |-> "KeyboardInterrupt", msg |-> <<>>, returncode |-> 0]

NotImplementedError(msg) ==
    [kind |-> "NotImplementedError", name |-> "NotImplementedError", msg |-> msg, returncode |-> 0]

AttributeError(msg) ==
    [kind |-> "AttributeError", name |-> "AttributeError", msg |-> msg, returncode |-> 0]

\* any exception that is neither CommandError nor KeyboardInterrupt
ValueError(msg) ==
    [kind |-> "ValueError", name |-> "ValueError", msg |-> msg, returncode |-> 0]

\* ------------------------------------------------------------------ trace
\* what happened, in order:
\*   "call"   the function who was entered (text: the label of handle_label,
\*            the positional arguments of handle; options: the keyword
\*            arguments of handle)
\*   "done"   the function who completed: kind, and value or exc
\*   "write"  OutputWrapper.write(text) on the sink who ("stdout", "stderr")
\*   "out"    text was written on the underlying stream who
\*   "error"  CommandParser.error(text)
\*   "exit"   sys.exit(code)
Ev(ev, who, text, code) ==
    [ev |-> ev, who |-> who, text |-> text, code |-> code,
     kind |-> "", exc |-> NoExc, value |-> None, options |-> NoOptions]

\* ------------------------------------------------------------------ completions
Ret(st, v) == [st |-> st, kind |-> "return", value |-> v, exc |-> NoExc, code |-> 0]
Raise(st, e) == [st |-> st, kind |-> "raise", value |-> None, exc |-> e, code |-> 0]
SysExit(st, code) ==
    [st |-> [st EXCEPT !.trace = Append(@, Ev("exit", "sys", <<>>, code))],
     kind |-> "exit", value |-> None, exc |-> NoExc, code |-> code]

\* the trace notes that who was entered, and how it completed
Enter(st, who, text) == [st EXCEPT !.trace = Append(@, Ev("call", who, text, 0))]
EnterWith(st, who, text, options) ==
    [st EXCEPT !.trace = Append(@, [Ev("call", who, text, 0) EXCEPT !.options = options])]
Leave(who, c) ==
    [c EXCEPT !.st.trace = Append(@,
        [ev |-> "done", who |-> who, text |-> <<>>, code |-> c.code, kind |-> c.kind,
         exc |-> c.exc, value |-> IF c.kind = "return" /\ who # "parse_args" THEN c.value ELSE None,
         options |-> NoOptions])]

\* ------------------------------------------------------------------ style.py
SupportsColor(env) ==
    IF env.NO_COLOR THEN FALSE
    ELSE IF env.FORCE_COLOR THEN TRUE
    ELSE env.isatty

Style(use_color) == [use_color |-> use_color]
color_style(force_color, env) == Style(force_color \/ SupportsColor(env))
no_style == Style(FALSE)

\* the callable stored as Style.ERROR
StyleERROR(style) == IF style.use_color THEN "styler" ELSE "noop"

ApplyStyle(f, text) ==
    IF f = "styler" THEN <<"ESC[31m">> \o text \o <<"ESC[0m">> ELSE text

\* ------------------------------------------------------------------ output.py
isatty(out, env) == out \in {SysStdout, SysStderr} /\ env.isatty

OutputWrapper(out) == [out |-> out, style_func |-> "identity", ending |-> <<NL>>]

\* style_func setter; f = "None" is the assignment of None
SetStyleFunc(wrapper, f, env) ==
    IF f # "None" /\ isatty(wrapper.out, env)
    THEN [wrapper EXCEPT !.style_func = f]
    ELSE [wrapper EXCEPT !.style_func = "identity"]

EndsWith(msg, ending) ==
    Len(msg) >= Len(ending) /\ SubSeq(msg, Len(msg) - Len(ending) + 1, Len(msg)) = ending

\* OutputWrapper.write(msg) on the sink named who ("stdout" or "stderr")
Write(st, who, msg) ==
    LET wrapper == IF who = "stdout" THEN st.self.stdout ELSE st.self.stderr
        ending == wrapper.ending
        full == IF ending # <<>> /\ ~EndsWith(msg, ending) THEN msg \o ending ELSE msg
    IN  [st EXCEPT !.trace = @ \o << Ev("write", who, msg, 0),
                                     Ev("out", wrapper.out, ApplyStyle(wrapper.style_func, full), 0) >>]

\* ------------------------------------------------------------------ command types
\* BaseCommand and LabelCommand are the framework's classes; Cmd and TxCmd
\* are subclasses that override handle() (TxCmd sets output_transaction),
\* LabelCmd is a LabelCommand subclass that overrides handle_label() and
\* names its label "word", CustomMsgCmd a LabelCommand subclass that sets
\* its own missing_args_message
Classes == {"BaseCommand", "Cmd", "TxCmd", "LabelCommand", "LabelCmd", "CustomMsgCmd"}

IsLabelCommand(cls) == cls \in {"LabelCommand", "LabelCmd", "CustomMsgCmd"}
OverridesHandle(cls) == cls \in {"Cmd", "TxCmd"}
OverridesHandleLabel(cls) == cls = "LabelCmd"
output_transaction(cls) == cls = "TxCmd"

\* types that are not BaseCommand subclasses: Plain has no execute
\* attribute, Duck has an execute method of its own
OtherTypes == {"Plain", "Duck"}
HasExecute(cls) == cls \in Classes \/ cls = "Duck"

\* LabelCommand.label and the class attribute missing_args_message
label(cls) == IF cls = "LabelCmd" THEN "word" ELSE "label"
LabelMissingArgsTemplate == <<"Enter at least one ", "%s", ".">>
CustomMissingArgsMessage == <<"Give me a ", "%s", "!">>
ClassMissingArgsMessage(cls) ==
    IF cls = "CustomMsgCmd" THEN Str(CustomMissingArgsMessage)
    ELSE IF IsLabelCommand(cls) THEN Str(LabelMissingArgsTemplate)
    ELSE None

\* the class attribute suppressed_base_arguments, as BaseCommand sets it
suppressed_base_arguments == {}

\* template % value: every "%s" token is replaced by the value
Format(template, value) ==
    [i \in 1..Len(template) |-> IF template[i] = "%s" THEN value ELSE template[i]]

NoInstance ==
    [cls |-> "none", called_from_command_line |-> FALSE,
     stdout |-> OutputWrapper(NoStream), stderr |-> OutputWrapper(NoStream),
     style |-> Style(FALSE), missing_args_message |-> None,
     suppressed_base_arguments |-> {}]

\* BaseCommand.__init__(stdout, stderr, no_color, force_color)
BaseCommandInit(st, cls, stdout, stderr, no_color, force_color, env) ==
    IF no_color /\ force_color
    THEN Raise(st, CommandError("CommandError",
                   <<"'no_color' and 'force_color' can't be used together.">>,
                   DefaultReturncode))
    ELSE LET out == OutputWrapper(IF stdout # NoStream THEN stdout ELSE SysStdout)
             err == OutputWrapper(IF stderr # NoStream THEN stderr ELSE SysStderr)
             style == IF no_color THEN no_style ELSE color_style(force_color, env)
             inst == [cls |-> cls, called_from_command_line |-> FALSE,
                      stdout |-> out,
                      stderr |-> IF no_color THEN err
                                 ELSE SetStyleFunc(err, StyleERROR(style), env),
                      style |-> style,
                      missing_args_message |-> ClassMissingArgsMessage(cls),
                      suppressed_base_arguments |-> suppressed_base_arguments]
         IN  Ret([st EXCEPT !.self = inst], None)

\* LabelCommand.__init__: the default template is filled in with the label noun
LabelCommandInit(st, cls, stdout, stderr, no_color, force_color, env) ==
    LET c == BaseCommandInit(st, cls, stdout, stderr, no_color, force_color, env)
    IN  IF c.kind # "return" THEN c
        ELSE IF c.st.self.missing_args_message = Str(LabelMissingArgsTemplate)
        THEN [c EXCEPT !.st.self.missing_args_message = Str(Format(@.s, label(cls)))]
        ELSE c

\* cls(stdout, stderr, no_color, force_color)
New(st, cls, stdout, stderr, no_color, force_color, env) ==
    IF IsLabelCommand(cls)
    THEN LabelCommandInit(st, cls, stdout, stderr, no_color, force_color, env)
    ELSE BaseCommandInit(st, cls, stdout, stderr, no_color, force_color, env)

\* ------------------------------------------------------------------ options
Has(options, k) == k \in DOMAIN options
\* options.get(k) used as a condition (a missing key gives None: false)
GetBool(options, k) == Has(options, k) /\ options[k] = TRUE
\* options.get(k) for a stream: present and not None
GetStream(options, k) == Has(options, k) /\ options[k] # NoStream
\* a plain assignment options[k] = v in place of setdefault
setdefault_Overwrite(options, k, v) == (k :> v) @@ options

\* options.setdefault(k, v)
setdefault(options, k, v) == IF Has(options, k) THEN options ELSE (k :> v) @@ options

\* ------------------------------------------------------------------ handle
\* what a user-written callback does: return a value or raise
RetB(v) == [kind |-> "return", value |-> v, exc |-> NoExc]
RaiseB(e) == [kind |-> "raise", value |-> None, exc |-> e]

Behave(st, b) == IF b.kind = "return" THEN Ret(st, b.value) ELSE Raise(st, b.exc)

\* a handle() that is not overridden returns None instead of raising
BaseHandle_ReturnsNone(st, args, options, hb) ==
    IF OverridesHandle(st.self.cls) THEN Behave(st, hb) ELSE Ret(st, None)

\* BaseCommand.handle, or the subclass's override (which does hb)
BaseHandle(st, args, options, hb) ==
    IF OverridesHandle(st.self.cls)
        THEN Behave(st, hb)
        ELSE Raise(st, NotImplementedError(
                 <<"Subclasses of BaseCommand must implement a handle() method.">>))

\* LabelCommand.handle_label, or the subclass's override (which does hl[label])
handle_label(st, lbl, options, hl) ==
    Leave("handle_label",
          IF OverridesHandleLabel(st.self.cls)
          THEN Behave(Enter(st, "handle_label", <<lbl>>), hl[lbl])
          ELSE Raise(Enter(st, "handle_label", <<lbl>>), NotImplementedError(
                   <<"Subclasses of LabelCommand must implement handle_label().">>)))

\* sep.join(parts)
RECURSIVE Join(_, _)
Join(sep, parts) ==
    IF parts = <<>> THEN <<>>
    ELSE IF Len(parts) = 1 THEN parts[1]
    ELSE parts[1] \o sep \o Join(sep, Tail(parts))

\* the loop of LabelCommand.handle from label number i on
RECURSIVE LabelLoop(_, _, _, _, _, _)
LabelLoop(st, labels, i, output, options, hl) ==
    IF i > Len(labels)
    THEN Ret(st, IF output # <<>> THEN Str(Join(<<NL>>, output)) ELSE None)
    ELSE LET c == handle_label(st, labels[i], options, hl)
         IN  IF c.kind # "return" THEN c
             ELSE LabelLoop(c.st, labels, i + 1,
                            IF Truthy(c.value) THEN Append(output, c.value.s) ELSE output,
                            options, hl)

\* LabelCommand.handle returning "" where it has nothing to join
LabelHandle_EmptyString(st, labels, options, hl) ==
    LET c == LabelLoop(st, labels, 1, <<>>, options, hl)
    IN  IF c.kind = "return" /\ c.value = None THEN Ret(c.st, Str(<<>>)) ELSE c

\* LabelCommand.handle that insists on a label as the parser does
LabelHandle_RequiresLabel(st, labels, options, hl) ==
    IF labels = <<>>
    THEN Raise(st, CommandError("CommandError",
                                <<"Error: ">> \o st.self.missing_args_message.s,
                                DefaultReturncode))
    ELSE LabelLoop(st, labels, 1, <<>>, options, hl)

\* LabelCommand.handle(*labels, **options)
LabelHandle(st, labels, options, hl) ==
    LabelLoop(st, labels, 1, <<>>, options, hl)

\* self.handle(*args, **options)
handle(st, args, options, hb, hl) ==
    Leave("handle",
          IF IsLabelCommand(st.self.cls)
          THEN LabelHandle(EnterWith(st, "handle", args, options), args, options, hl)
          ELSE BaseHandle(EnterWith(st, "handle", args, options), args, options, hb))

\* ------------------------------------------------------------------ execute
\* the markers the wrong way round
TransactionWrap_CommitFirst(output) == <<"COMMIT;", NL>> \o output \o <<NL, "BEGIN;">>

TransactionWrap(output) == <<"BEGIN;", NL>> \o output \o <<NL, "COMMIT;">>

\* the color and sink options of execute
ApplyOptions(st, options, env) ==
    LET s1 == IF GetBool(options, "force_color")
              THEN [st EXCEPT !.self.style = color_style(TRUE, env)]
              ELSE IF GetBool(options, "no_color")
              THEN [st EXCEPT !.self.style = no_style,
                              !.self.stderr = SetStyleFunc(@, "None", env)]
              ELSE st
        s2 == IF GetStream(options, "stdout")
              THEN [s1 EXCEPT !.self.stdout = OutputWrapper(options["stdout"])]
              ELSE s1
    IN  IF GetStream(options, "stderr")
        THEN [s2 EXCEPT !.self.stderr = OutputWrapper(options["stderr"])]
        ELSE s2

\* the tail of execute testing `output is not None` instead of `output`
Report_WritesEmpty(c) ==
    IF c.kind # "return" THEN c
    ELSE IF ~c.value.none
    THEN LET output == IF output_transaction(c.st.self.cls)
                       THEN TransactionWrap(c.value.s)
                       ELSE c.value.s
         IN  Ret(Write(c.st, "stdout", output), Str(output))
    ELSE Ret(c.st, c.value)

\* the tail of execute: report the output of handle() and return it
Report(c) ==
    IF c.kind # "return" THEN c
    ELSE IF Truthy(c.value)
    THEN LET output == IF output_transaction(c.st.self.cls)
                       THEN TransactionWrap(c.value.s)
                       ELSE c.value.s
         IN  Ret(Write(c.st, "stdout", output), Str(output))
    ELSE Ret(c.st, c.value)

\* execute without the check of the two colour options
execute_NoColourCheck(st, args, options, hb, hl, env) ==
    Leave("execute",
          Report(handle(ApplyOptions(Enter(st, "execute", <<>>), options, env),
                        args, options, hb, hl)))

\* execute that puts the sinks and the style back when it is done
execute_RestoresSinks(st, args, options, hb, hl, env) ==
    LET c == Leave("execute",
                   IF GetBool(options, "force_color") /\ GetBool(options, "no_color")
                   THEN Raise(Enter(st, "execute", <<>>), CommandError("CommandError",
                            <<"The --no-color and --force-color options can't be used together.">>,
                            DefaultReturncode))
                   ELSE Report(handle(ApplyOptions(Enter(st, "execute", <<>>), options, env),
                                      args, options, hb, hl)))
    IN  [c EXCEPT !.st.self = st.self]

\* BaseCommand.execute(*args, **options)
execute(st, args, options, hb, hl, env) ==
    Leave("execute",
          IF GetBool(options, "force_color") /\ GetBool(options, "no_color")
          THEN Raise(Enter(st, "execute", <<>>), CommandError("CommandError",
                         <<"The --no-color and --force-color options can't be used together.">>,
                         DefaultReturncode))
          ELSE Report(handle(ApplyOptions(Enter(st, "execute", <<>>), options, env),
                             args, options, hb, hl)))

\* command() for a type, with no arguments
Instantiate(st, cls, env) ==
    IF cls \in Classes
    THEN New(Enter(st, "__init__", <<cls>>), cls, NoStream, NoStream, FALSE, FALSE, env).st
    ELSE [Enter(st, "__init__", <<cls>>) EXCEPT !.self = [NoInstance EXCEPT !.cls = cls]]

\* command.execute(*args, **options), looked up on the instance: the
\* execute of BaseCommand, the execute a foreign type wrote (which does hb),
\* or no attribute of that name
CallExecute(st, args, options, hb, hl, env) ==
    IF st.self.cls \in Classes THEN execute(st, args, options, hb, hl, env)
    ELSE IF HasExecute(st.self.cls)
    THEN Leave("Duck.execute", Behave(EnterWith(st, "Duck.execute", args, options), hb))
    ELSE Raise(st, AttributeError(<<"'", st.self.cls, "' object has no attribute 'execute'">>))

\* make_command(suppressed_base_arguments=suppressed)(): an instance of a
\* subclass of cls made with that class attribute
make_command(st, cls, suppressed, env) ==
    [Instantiate(st, cls, env) EXCEPT !.self.suppressed_base_arguments = suppressed]

\* call_command with the except clauses of the command-line boundary
call_command_Catching(st, isType, cls, args, options, hb, hl, env) ==
    LET st1 == IF isType THEN Instantiate(st, cls, env) ELSE st
        o1 == setdefault(options, "verbosity", 1)
        o2 == setdefault(o1, "no_color", FALSE)
        o3 == setdefault(o2, "force_color", FALSE)
        o4 == setdefault(o3, "traceback", FALSE)
        c == CallExecute(st1, args, o4, hb, hl, env)
    IN  IF c.kind = "raise" /\ c.exc.kind = "CommandError"
        THEN SysExit(Write(c.st, "stderr", <<c.exc.name, ": ">> \o c.exc.msg), c.exc.returncode)
        ELSE c

\* ------------------------------------------------------------------ utils.py
\* call_command(command, *args, **options); command is a type
\* (isType, instantiated with no arguments) or an instance (st.self)
call_command(st, isType, cls, args, options, hb, hl, env) ==
    LET st1 == IF isType THEN Instantiate(st, cls, env) ELSE st
        o1 == setdefault(options, "verbosity", 1)
        o2 == setdefault(o1, "no_color", FALSE)
        o3 == setdefault(o2, "force_color", FALSE)
        o4 == setdefault(o3, "traceback", FALSE)
    IN  CallExecute(st1, args, o4, hb, hl, env)

\* ------------------------------------------------------------------ CommandParser
\* an Optional[bool]
NoneB == [none |-> TRUE, b |-> FALSE]
Bool(b) == [none |-> FALSE, b |-> b]
TruthyB(v) == ~v.none /\ v.b

\* the argument tokens of the model; a token is atomic, so what the code
\* reads off its characters is given per token
FlagTokens == {"--traceback", "--no-color", "--force-color"}
VerbosityTokens == {"-v", "--verbosity"}
VersionTokens == {"--version"}
HelpTokens == {"-h", "--help"}
UnknownOptionTokens == {"--bogus"}
DashTokens ==
    FlagTokens \cup VerbosityTokens \cup VersionTokens \cup HelpTokens \cup UnknownOptionTokens
\* arg.startswith("-")
StartsWithDash(tok) == tok \in DashTokens
\* int(tok), for the tokens int() accepts
IntTokens == {"2", "7"}
ParseInt(tok) == IF tok = "2" THEN 2 ELSE 7
VerbosityChoices == {0, 1, 2, 3}
\* the dest of a store_true flag
Dest(tok) ==
    IF tok = "--traceback" THEN "traceback"
    ELSE IF tok = "--no-color" THEN "no_color" ELSE "force_color"

\* CommandParser(missing_args_message=..., called_from_command_line=...) with
\* the base arguments of create_parser and the positional of add_arguments
\* ("+" is nargs="+" collected under "args", "none" is no positional)
\* actions holds the options of the parser in the order they were added,
\* each with its option strings and its help; ArgumentParser.__init__ adds
\* -h / --help itself
CommandParser(prog, missing_args_message, called_from_command_line, positional, metavar) ==
    [prog |-> prog, missing_args_message |-> missing_args_message,
     called_from_command_line |-> called_from_command_line,
     positional |-> positional, metavar |-> metavar,
     actions |-> << [option_strings |-> <<"-h", "--help">>,
                     help |-> "show this help message and exit"] >>]

\* argparse.SUPPRESS
SUPPRESS == "==SUPPRESS=="

\* parser.add_argument(*option_strings, help=help)
add_argument(parser, option_strings, help) ==
    [parser EXCEPT !.actions = Append(@, [option_strings |-> option_strings, help |-> help])]

\* add_base_argument that leaves a suppressed argument out of the parser
add_base_argument_Drops(self, parser, args, help) ==
    IF \E i \in DOMAIN args : args[i] \in self.suppressed_base_arguments
    THEN parser
    ELSE add_argument(parser, args, help)

\* BaseCommand.add_base_argument(parser, *args, help=help)
add_base_argument(self, parser, args, help) ==
    add_argument(parser, args,
                 IF \E i \in DOMAIN args : args[i] \in self.suppressed_base_arguments
                 THEN SUPPRESS ELSE help)

\* the base arguments of create_parser
AddBaseArguments(self, parser) ==
    LET p1 == add_base_argument(self, parser, <<"--version">>,
                                "Show program's version number and exit.")
        p2 == add_base_argument(self, p1, <<"-v", "--verbosity">>, "Verbosity level")
        p3 == add_base_argument(self, p2, <<"--traceback">>,
                                "Raise on CommandError instead of printing a clean error message.")
        p4 == add_base_argument(self, p3, <<"--no-color">>, "Disable colorized output.")
    IN  add_base_argument(self, p4, <<"--force-color">>,
                          "Force colorized output even when not writing to a TTY.")

\* BaseCommand.create_parser(prog_name, subcommand) with add_arguments
create_parser(self, prog_name, subcommand) ==
    AddBaseArguments(self,
        CommandParser(<<prog_name, " ", subcommand>>,
                      self.missing_args_message,
                      Bool(self.called_from_command_line),
                      IF IsLabelCommand(self.cls) THEN "+" ELSE "none",
                      label(self.cls)))

\* CommandHelpFormatter._reordered_actions: the base arguments go last
show_last == {"--version", "--verbosity", "--traceback", "--no-color", "--force-color"}
ShownLast(action) ==
    \E j \in DOMAIN action.option_strings : action.option_strings[j] \in show_last
reordered_actions(actions) ==
    SelectSeq(actions, LAMBDA a : ~ShownLast(a)) \o SelectSeq(actions, ShownLast)

\* the usage line and the option lines of the help, from action i on; an
\* action whose help is SUPPRESS is in neither
RECURSIVE UsageOf(_, _)
UsageOf(actions, i) ==
    IF i > Len(actions) THEN <<>>
    ELSE (IF actions[i].help = SUPPRESS THEN <<>>
          ELSE <<" [", actions[i].option_strings[1], "]">>) \o UsageOf(actions, i + 1)
RECURSIVE OptionLines(_, _)
OptionLines(actions, i) ==
    IF i > Len(actions) THEN <<>>
    ELSE (IF actions[i].help = SUPPRESS THEN <<>>
          ELSE <<"  ">> \o Join(<<", ">>, [j \in DOMAIN actions[i].option_strings |->
                                              <<actions[i].option_strings[j]>>])
               \o <<"  ", actions[i].help, NL>>) \o OptionLines(actions, i + 1)

\* ArgumentParser.format_help() with formatter_class=CommandHelpFormatter
format_help(parser) ==
    LET actions == reordered_actions(parser.actions)
    IN  <<"usage: ">> \o parser.prog \o UsageOf(actions, 1)
        \o (IF parser.positional = "+" THEN <<" ", parser.metavar, NL>> ELSE <<NL>>)
        \o <<NL, "options:", NL>> \o OptionLines(actions, 1)

\* the parser has an option with the option string tok
Knows(parser, tok) ==
    \E i \in DOMAIN parser.actions :
       \E j \in DOMAIN parser.actions[i].option_strings :
          parser.actions[i].option_strings[j] = tok

\* argparse.ArgumentParser.error: usage and message on sys.stderr, exit status 2
ArgparseExitStatus == 2
ArgumentParserError(st, parser, message) ==
    SysExit([st EXCEPT !.trace = @ \o
                << Ev("out", SysStderr, <<"usage: ">> \o parser.prog, 0),
                   Ev("out", SysStderr, parser.prog \o <<": error: ">> \o message \o <<NL>>, 0) >>],
            ArgparseExitStatus)

\* error() that ends the process whatever the mode flag says
error_IgnoresMode(st, parser, message) ==
    ArgumentParserError([st EXCEPT !.trace = Append(@, Ev("error", "", message, 0))],
                        parser, message)

\* CommandParser.error(message)
error(st, parser, message) ==
    LET st1 == [st EXCEPT !.trace = Append(@, Ev("error", "", message, 0))]
    IN  IF TruthyB(parser.called_from_command_line)
        THEN ArgumentParserError(st1, parser, message)
        ELSE Raise(st1, CommandError("CommandError", <<"Error: ">> \o message, DefaultReturncode))

\* the defaults of the namespace
Namespace(parser) ==
    [k \in {"verbosity", "traceback", "no_color", "force_color"} |->
        IF k = "verbosity" THEN 1 ELSE FALSE]

\* the end of the run of positional tokens that starts at i
RECURSIVE RunEnd(_, _)
RunEnd(args, i) ==
    IF i + 1 <= Len(args) /\ ~StartsWithDash(args[i + 1]) THEN RunEnd(args, i + 1) ELSE i

\* argparse.ArgumentParser.parse_args on the schema above, from token i on:
\* options act in order, the first run of positionals fills nargs="+",
\* everything else is left over
RECURSIVE Consume(_, _, _, _, _, _, _)
Consume(st, parser, args, i, ns, extras, seen) ==
    IF i > Len(args)
    THEN IF parser.positional = "+" /\ ~seen
         THEN error(st, parser, <<"the following arguments are required: ", parser.metavar>>)
         ELSE IF extras # <<>>
         THEN error(st, parser, <<"unrecognized arguments: ">> \o Join(<<" ">>, [j \in 1..Len(extras) |-> <<extras[j]>>]))
         ELSE Ret(st, ns)
    ELSE LET tok == args[i] IN
         IF tok \in FlagTokens /\ Knows(parser, tok)
         THEN Consume(st, parser, args, i + 1, [ns EXCEPT ![Dest(tok)] = TRUE], extras, seen)
         ELSE IF tok \in VersionTokens /\ Knows(parser, tok)
         THEN SysExit([st EXCEPT !.trace = Append(@, Ev("out", SysStdout, <<"version", NL>>, 0))], 0)
         ELSE IF tok \in HelpTokens /\ Knows(parser, tok)
         THEN SysExit([st EXCEPT !.trace = Append(@, Ev("out", SysStdout, format_help(parser), 0))], 0)
         ELSE IF tok \in VerbosityTokens /\ Knows(parser, tok)
         THEN IF i + 1 > Len(args) \/ StartsWithDash(args[i + 1])
              THEN error(st, parser, <<"argument -v/--verbosity: expected one argument">>)
              ELSE IF args[i + 1] \notin IntTokens
              THEN error(st, parser, <<"argument -v/--verbosity: invalid int value: ", args[i + 1]>>)
              ELSE IF ParseInt(args[i + 1]) \notin VerbosityChoices
              THEN error(st, parser, <<"argument -v/--verbosity: invalid choice: ", args[i + 1]>>)
              ELSE Consume(st, parser, args, i + 2,
                           [ns EXCEPT !["verbosity"] = ParseInt(args[i + 1])], extras, seen)
         ELSE IF StartsWithDash(tok)
         THEN Consume(st, parser, args, i + 1, ns, Append(extras, tok), seen)
         ELSE LET j == RunEnd(args, i)
                  run == SubSeq(args, i, j)
              IN  IF parser.positional = "+" /\ ~seen
                  THEN Consume(st, parser, args, j + 1, ("args" :> run) @@ ns, extras, TRUE)
                  ELSE Consume(st, parser, args, j + 1, ns, extras \o run, seen)

\* parse_args without the test of missing_args_message
parse_args_Generic(st, parser, args) ==
    Leave("parse_args",
          Consume(Enter(st, "parse_args", <<>>), parser, args, 1, Namespace(parser), <<>>, FALSE))

\* parse_args that gives the message whenever no positional token is there
parse_args_NoPositionalToken(st, parser, args) ==
    Leave("parse_args",
          IF Truthy(parser.missing_args_message)
             /\ ~(\E i \in 1..Len(args) : ~StartsWithDash(args[i]))
          THEN error(Enter(st, "parse_args", <<>>), parser, parser.missing_args_message.s)
          ELSE Consume(Enter(st, "parse_args", <<>>), parser, args, 1, Namespace(parser), <<>>, FALSE))

\* CommandParser.parse_args(args)
parse_args(st, parser, args) ==
    Leave("parse_args",
          IF Truthy(parser.missing_args_message)
             /\ ~(args # <<>> \/ \E i \in 1..Len(args) : ~StartsWithDash(args[i]))
          THEN error(Enter(st, "parse_args", <<>>), parser, parser.missing_args_message.s)
          ELSE Consume(Enter(st, "parse_args", <<>>), parser, args, 1, Namespace(parser), <<>>, FALSE))

\* BaseCommand.print_help(prog_name, subcommand): parser.print_help()
\* writes the help on sys.stdout
print_help(st, prog_name, subcommand) ==
    LET parser == create_parser(st.self, prog_name, subcommand)
    IN  Leave("print_help",
              Ret([Enter(st, "print_help", <<>>) EXCEPT
                      !.trace = Append(@, Ev("out", SysStdout, format_help(parser), 0))],
                  None))

\* ------------------------------------------------------------------ run_from_argv
AbortedMessage == <<NL, "Aborted.">>
AbortExitCode == 1

\* the boundary with one more except clause: any exception ends the process
Boundary_ExitOnAny(c, traceback) ==
    IF c.kind = "raise" /\ c.exc.kind = "CommandError"
    THEN IF traceback
         THEN c
         ELSE SysExit(Write(c.st, "stderr", <<c.exc.name, ": ">> \o c.exc.msg),
                      c.exc.returncode)
    ELSE IF c.kind = "raise" /\ c.exc.kind = "KeyboardInterrupt"
    THEN SysExit(Write(c.st, "stderr", AbortedMessage), AbortExitCode)
    ELSE IF c.kind = "raise"
    THEN SysExit(Write(c.st, "stderr", <<c.exc.name, ": ">> \o c.exc.msg), 1)
    ELSE IF c.kind = "return" THEN Ret(c.st, None)
    ELSE c

\* the boundary exiting with 1 whatever the error's returncode
Boundary_ExitOne(c, traceback) ==
    IF c.kind = "raise" /\ c.exc.kind = "CommandError"
    THEN IF traceback
         THEN c
         ELSE SysExit(Write(c.st, "stderr", <<c.exc.name, ": ">> \o c.exc.msg), 1)
    ELSE IF c.kind = "raise" /\ c.exc.kind = "KeyboardInterrupt"
    THEN SysExit(Write(c.st, "stderr", AbortedMessage), AbortExitCode)
    ELSE IF c.kind = "return" THEN Ret(c.st, None)
    ELSE c

\* the boundary without the test of options.traceback
Boundary_NoTraceback(c, traceback) ==
    IF c.kind = "raise" /\ c.exc.kind = "CommandError"
    THEN SysExit(Write(c.st, "stderr", <<c.exc.name, ": ">> \o c.exc.msg),
                 c.exc.returncode)
    ELSE IF c.kind = "raise" /\ c.exc.kind = "KeyboardInterrupt"
    THEN SysExit(Write(c.st, "stderr", AbortedMessage), AbortExitCode)
    ELSE IF c.kind = "return" THEN Ret(c.st, None)
    ELSE c

\* the boundary without the except KeyboardInterrupt clause
Boundary_NoInterrupt(c, traceback) ==
    IF c.kind = "raise" /\ c.exc.kind = "CommandError"
    THEN IF traceback
         THEN c
         ELSE SysExit(Write(c.st, "stderr", <<c.exc.name, ": ">> \o c.exc.msg),
                      c.exc.returncode)
    ELSE IF c.kind = "return" THEN Ret(c.st, None)
    ELSE c

\* the boundary with a bare except that swallows what it does not know
Boundary_Swallow(c, traceback) ==
    IF c.kind = "raise" /\ c.exc.kind = "CommandError"
    THEN IF traceback
         THEN c
         ELSE SysExit(Write(c.st, "stderr", <<c.exc.name, ": ">> \o c.exc.msg),
                      c.exc.returncode)
    ELSE IF c.kind = "raise" /\ c.exc.kind = "KeyboardInterrupt"
    THEN SysExit(Write(c.st, "stderr", AbortedMessage), AbortExitCode)
    ELSE IF c.kind = "exit" THEN c
    ELSE Ret(c.st, None)

\* the except clauses of run_from_argv around execute's completion c
Boundary(c, traceback) ==
    IF c.kind = "raise" /\ c.exc.kind = "CommandError"
    THEN IF traceback
         THEN c
         ELSE SysExit(Write(c.st, "stderr", <<c.exc.name, ": ">> \o c.exc.msg),
                      c.exc.returncode)
    ELSE IF c.kind = "raise" /\ c.exc.kind = "KeyboardInterrupt"
    THEN SysExit(Write(c.st, "stderr", AbortedMessage), AbortExitCode)
    ELSE IF c.kind = "return" THEN Ret(c.st, None)
    ELSE c

\* run_from_argv that clears the flag of the instance when it is done
run_from_argv_ResetsFlag(st, argv, hb, hl, env) ==
    LET st1 == [st EXCEPT !.self.called_from_command_line = TRUE]
        parser == create_parser(st1.self, argv[1], "")
        p == parse_args(st1, parser, Tail(argv))
        c == IF p.kind # "return" THEN p
             ELSE Boundary(execute(p.st,
                                   IF Has(p.value, "args") THEN p.value["args"] ELSE <<>>,
                                   [k \in DOMAIN p.value \ {"args"} |-> p.value[k]],
                                   hb, hl, env),
                           p.value["traceback"])
    IN  [c EXCEPT !.st.self.called_from_command_line = FALSE]

\* BaseCommand.run_from_argv(argv) on the instance st.self
run_from_argv(st, argv, hb, hl, env) ==
    LET st1 == [st EXCEPT !.self.called_from_command_line = TRUE]
        prog == argv[1]
        remaining == Tail(argv)
        parser == create_parser(st1.self, prog, "")
        p == parse_args(st1, parser, remaining)
    IN  IF p.kind # "return" THEN p
        ELSE LET options == p.value
                 args == IF Has(options, "args") THEN options["args"] ELSE <<>>
                 cmd_options == [k \in DOMAIN options \ {"args"} |-> options[k]]
             IN  Boundary(execute(p.st, args, cmd_options, hb, hl, env),
                          options["traceback"])

\* ------------------------------------------------------------------ registry.py
\* a class object is its name; NoClass is None where a class is expected
NoClass == "None"
\* cls.help
HelpOf(cls) == IF cls = "Cmd" THEN <<"Say hello">> ELSE <<>>

\* the command names and file names of the model, in the order of Python's
\* string comparison ("_" sorts before the lower-case letters)
NameOrder == <<"_private", "export", "greet", "missing", "tools">>
\* sorted(S) for a set of names
sorted(S) == SelectSeq(NameOrder, LAMBDA n : n \in S)

\* a dict[str, type] is the sequence of its items <<key, value>> in
\* insertion order, each key once
DictKeys(d) == {d[i][1] : i \in DOMAIN d}
\* d.get(k)
DictGet(d, k) ==
    IF k \in DictKeys(d) THEN d[CHOOSE i \in DOMAIN d : d[i][1] = k][2] ELSE NoClass

\* an assignment that leaves a key it finds as it is
DictSet_KeepFirst(d, k, v) ==
    IF k \in DictKeys(d) THEN d ELSE Append(d, <<k, v>>)

\* d[k] = v
DictSet(d, k, v) ==
    IF k \in DictKeys(d)
    THEN [i \in DOMAIN d |-> IF d[i][1] = k THEN <<k, v>> ELSE d[i]]
    ELSE Append(d, <<k, v>>)

\* CommandRegistry(): live is false where the caller has no registry
NoRegistry == [live |-> FALSE, commands |-> <<>>]
CommandRegistry == [live |-> TRUE, commands |-> <<>>]

\* the decorator of register(name), applied to cls: the registry after it
\* and the class it returns
register(reg, name, cls) ==
    [reg |-> [reg EXCEPT !.commands = DictSet(@, name, cls)], value |-> cls]
\* add(name, command_class)
add(reg, name, command_class) ==
    [reg |-> [reg EXCEPT !.commands = DictSet(@, name, command_class)], value |-> NoClass]
\* get(name)
get(reg, name) == DictGet(reg.commands, name)

\* list_commands()
list_commands(reg) == sorted(DictKeys(reg.commands))

\* print(text) on sys.stdout
PrintLine(st, text) ==
    [st EXCEPT !.trace = Append(@, Ev("out", SysStdout, text \o <<NL>>, 0))]
RECURSIVE PrintEntries(_, _, _, _)
PrintEntries(st, commands, names, i) ==
    IF i > Len(names) THEN st
    ELSE LET cls == DictGet(commands, names[i])
             desc == IF HelpOf(cls) # <<>> THEN HelpOf(cls) ELSE <<"(no description)">>
         IN  PrintEntries(PrintLine(st, <<"  ", names[i], " ">> \o desc), commands, names, i + 1)

\* CommandRegistry._print_help(prog)
registry_print_help(st, reg, prog) ==
    LET s1 == PrintLine(st, <<"Usage: ", prog, " <command> [options]", NL>>)
        s2 == PrintLine(s1, <<"Available commands:">>)
        s3 == PrintEntries(s2, reg.commands, list_commands(reg), 1)
    IN  PrintLine(s3, <<NL, "Run '", prog, " <command> --help' for command-specific help.">>)

\* logger.error(text)
LogError(st, text) == [st EXCEPT !.trace = Append(@, Ev("log", "error", text, 0))]

\* the slice taken one token too far: [argv[0]] + argv[3:]
DispatchArgv_OffByOne(argv) == <<argv[1]>> \o SubSeq(argv, 4, Len(argv))

\* [argv[0]] + argv[2:]
DispatchArgv(argv) == <<argv[1]>> \o SubSeq(argv, 3, Len(argv))

\* command_class().run_from_argv(argv)
Dispatch(st, command_class, argv, hb, hl, env) ==
    run_from_argv(Enter(Instantiate(st, command_class, env), "run_from_argv", argv),
                  argv, hb, hl, env)

\* run() that exits with status 1 after the usage summary
registry_run_HelpFails(st, reg, given, sysargv, hb, hl, env) ==
    LET argv == IF given # <<>> THEN given ELSE sysargv
    IN  IF Len(argv) < 2 \/ argv[2] \in {"-h", "--help"}
        THEN SysExit(registry_print_help(st, reg, IF argv # <<>> THEN argv[1] ELSE "unknown"), 1)
        ELSE IF get(reg, argv[2]) = NoClass
        THEN SysExit(LogError(st, <<"Unknown command: ", argv[2]>>), 1)
        ELSE Dispatch(st, get(reg, argv[2]), DispatchArgv(argv), hb, hl, env)

\* CommandRegistry.run(argv); given is the argument (<<>> for None or an
\* empty list), sysargv is sys.argv
registry_run(st, reg, given, sysargv, hb, hl, env) ==
    LET argv == IF given # <<>> THEN given ELSE sysargv
    IN  IF Len(argv) < 2 \/ argv[2] \in {"-h", "--help"}
        THEN SysExit(registry_print_help(st, reg, IF argv # <<>> THEN argv[1] ELSE "unknown"), 0)
        ELSE LET subcommand == argv[2]
                 command_class == DictGet(reg.commands, subcommand)
                 names == list_commands(reg)
                 available == IF names # <<>>
                              THEN Join(<<", ">>, [i \in DOMAIN names |-> <<names[i]>>])
                              ELSE <<"(none registered)">>
             IN  IF command_class = NoClass
                 THEN SysExit(LogError(st, <<"Unknown command: '", subcommand,
                                             "'. Available commands: ">> \o available
                                           \o <<". Type '", argv[1], " --help' for usage.">>), 1)
                 ELSE Dispatch(st, command_class, DispatchArgv(argv), hb, hl, env)

\* ------------------------------------------------------------------ runner.py
\* the commands directory: whether it exists, and the module each of its
\* *.py files holds, by file stem
NoDir == [exists |-> FALSE, mods |-> <<>>]
EmptyDir == [exists |-> TRUE, mods |-> <<>>]

\* what a command file may hold:
\*   "classic"   class Command(BaseCommand), here Cmd
\*   "registry"  a module-level CommandRegistry with greet and export
\*   "both"      class Command (here LabelCmd) and a registry with greet
\*   "other"     a class named Command that is not a BaseCommand subclass
\*   "broken"    executing the file raises an Exception (SyntaxError, ...)
\*   "exits"     executing the file raises SystemExit (it calls sys.exit)
ModuleKinds == {"classic", "registry", "both", "other", "broken", "exits"}
ModuleExitCode == 3
\* getattr(module, "Command", None)
CommandAttr(kind) ==
    IF kind = "classic" THEN "Cmd"
    ELSE IF kind = "both" THEN "LabelCmd"
    ELSE IF kind = "other" THEN "Plain"
    ELSE NoClass
\* the CommandRegistry instances among dir(module), in that order
RegistriesOf(kind) ==
    IF kind = "registry"
    THEN << register(register(CommandRegistry, "greet", "LabelCmd").reg, "export", "Cmd").reg >>
    ELSE IF kind = "both"
    THEN << register(CommandRegistry, "greet", "Cmd").reg >>
    ELSE <<>>
\* path.stem.startswith("_")
IsPrivate(stem) == stem = "_private"
\* issubclass(command_class, BaseCommand)
IsCommandClass(cls) == cls \in Classes

\* _load_module without the except clause
load_module_NoExcept(st, stem, kind) ==
    Leave("_load_module",
          IF kind = "broken"
          THEN Raise(Enter(st, "_load_module", <<stem>>), ValueError(<<"cannot load ", stem>>))
          ELSE IF kind = "exits"
          THEN SysExit(Enter(st, "_load_module", <<stem>>), ModuleExitCode)
          ELSE Ret(Enter(st, "_load_module", <<stem>>), Str(<<kind>>)))

\* Runner._load_module(path): the module (here its kind), or None when
\* executing it raised an Exception, which is logged; an exception that is
\* not an Exception (SystemExit) is not caught
load_module(st, stem, kind) ==
    Leave("_load_module",
          IF kind = "broken"
          THEN Ret(LogError(Enter(st, "_load_module", <<stem>>),
                            <<"Error loading command module '", stem, "'">>), None)
          ELSE IF kind = "exits"
          THEN SysExit(Enter(st, "_load_module", <<stem>>), ModuleExitCode)
          ELSE Ret(Enter(st, "_load_module", <<stem>>), Str(<<kind>>)))

\* commands[name] = obj.get(name) for the names of one registry
RECURSIVE MergeNames(_, _, _, _)
MergeNames(commands, reg, names, i) ==
    IF i > Len(names) THEN commands
    ELSE MergeNames(IF get(reg, names[i]) # NoClass
                    THEN DictSet(commands, names[i], get(reg, names[i]))
                    ELSE commands,
                    reg, names, i + 1)
\* the loop over the registries of a module
RECURSIVE MergeRegistries(_, _, _)
MergeRegistries(commands, regs, i) ==
    IF i > Len(regs) THEN commands
    ELSE MergeRegistries(MergeNames(commands, regs[i], list_commands(regs[i]), 1), regs, i + 1)

\* the registries merged before the class named Command is looked at
MergeModule_RegistryFirst(commands, stem, kind) ==
    LET command_class == CommandAttr(kind)
        c1 == MergeRegistries(commands, RegistriesOf(kind), 1)
    IN  IF command_class # NoClass /\ IsCommandClass(command_class)
        THEN DictSet(c1, stem, command_class)
        ELSE c1

\* what one loaded module adds to the mapping
MergeModule(commands, stem, kind) ==
    LET command_class == CommandAttr(kind)
        c1 == IF command_class # NoClass /\ IsCommandClass(command_class)
              THEN DictSet(commands, stem, command_class)
              ELSE commands
    IN  MergeRegistries(c1, RegistriesOf(kind), 1)

\* the loop of _discover over the sorted paths, from path number i on
RECURSIVE DiscoverLoop(_, _, _, _, _)
DiscoverLoop(st, mods, paths, i, commands) ==
    IF i > Len(paths) THEN Ret(st, commands)
    ELSE IF IsPrivate(paths[i]) THEN DiscoverLoop(st, mods, paths, i + 1, commands)
    ELSE LET m == load_module(st, paths[i], mods[paths[i]])
         IN  IF m.kind # "return" THEN m
             ELSE IF m.value = None THEN DiscoverLoop(m.st, mods, paths, i + 1, commands)
             ELSE DiscoverLoop(m.st, mods, paths, i + 1,
                               MergeModule(commands, paths[i], mods[paths[i]]))

\* Runner._discover()
discover(st, dir) ==
    Leave("_discover",
          IF ~dir.exists THEN Ret(Enter(st, "_discover", <<>>), <<>>)
          ELSE DiscoverLoop(Enter(st, "_discover", <<>>), dir.mods,
                            sorted(DOMAIN dir.mods), 1, <<>>))

\* Runner._print_help(prog, commands)
runner_print_help(st, prog, commands) ==
    LET s1 == PrintLine(st, <<"Usage: ", prog, " <command> [options]", NL>>)
        s2 == PrintLine(s1, <<"Available commands:">>)
        s3 == PrintEntries(s2, commands, sorted(DictKeys(commands)), 1)
    IN  PrintLine(s3, <<NL, "Run '", prog, " <command> --help' for command-specific help.">>)

\* run() that exits with status 2 on an unknown name
runner_run_UnknownExitsTwo(st, dir, given, sysargv, hb, hl, env) ==
    LET argv == IF given # <<>> THEN given ELSE sysargv
        d == discover(st, dir)
    IN  IF d.kind # "return" THEN d
        ELSE IF Len(argv) < 2 \/ argv[2] \in {"-h", "--help"}
        THEN SysExit(runner_print_help(d.st, IF argv # <<>> THEN argv[1] ELSE "unknown",
                                       d.value), 0)
        ELSE IF DictGet(d.value, argv[2]) = NoClass
        THEN SysExit(LogError(d.st, <<"Unknown command: ", argv[2]>>), 2)
        ELSE Dispatch(d.st, DictGet(d.value, argv[2]), DispatchArgv(argv), hb, hl, env)

\* Runner.run(argv); given is the argument (<<>> for None or an empty
\* list), sysargv is sys.argv
runner_run(st, dir, given, sysargv, hb, hl, env) ==
    LET argv == IF given # <<>> THEN given ELSE sysargv
        d == discover(st, dir)
    IN  IF d.kind # "return" THEN d
        ELSE LET commands == d.value IN
        IF Len(argv) < 2 \/ argv[2] \in {"-h", "--help"}
        THEN SysExit(runner_print_help(d.st, IF argv # <<>> THEN argv[1] ELSE "unknown",
                                       commands), 0)
        ELSE LET subcommand == argv[2]
                 command_class == DictGet(commands, subcommand)
                 names == sorted(DictKeys(commands))
                 available == IF names # <<>>
                              THEN Join(<<", ">>, [i \in DOMAIN names |-> <<names[i]>>])
                              ELSE <<"(none found)">>
             IN  IF command_class = NoClass
                 THEN SysExit(LogError(d.st, <<"Unknown command: '", subcommand,
                                               "'. Available commands: ">> \o available
                                             \o <<". Type '", argv[1], " --help' for usage.">>), 1)
                 ELSE Dispatch(d.st, command_class, DispatchArgv(argv), hb, hl, env)

\* ------------------------------------------------------------------ inputs
\* sequences over S of length at most n
SeqsUpTo(S, n) == UNION {[1..k -> S] : k \in 0..n}

\* the tokens a caller puts after the program name
ArgTokens == {"--traceback", "--no-color", "--force-color", "-v", "--version",
              "--bogus", "2", "a"}
ArgLists == SeqsUpTo(ArgTokens, MaxArgv)
ProgName == "prog"

\* the labels passed to a LabelCommand: the positional tokens
Labels == {tok \in ArgTokens : ~StartsWithDash(tok)}
LabelLists == SeqsUpTo(Labels, MaxLabels)
\* label.upper()
Upper(lbl) == IF lbl = "a" THEN "A" ELSE lbl

\* what an overridden handle() may do
HandleBehaviours ==
    { RetB(None), RetB(Str(<<>>)), RetB(Str(<<"SELECT 1;">>)), RetB(Str(<<"done", NL>>)),
      RaiseB(CommandError("CommandError", <<"boom">>, DefaultReturncode)),
      RaiseB(CommandError("CommandError", <<"fail">>, 2)),
      RaiseB(CommandError("MyError", <<"oops">>, 0)),
      RaiseB(KeyboardInterrupt),
      RaiseB(ValueError(<<"bad">>)) }

\* what an overridden handle_label() may do, label by label
UpperB == [l \in Labels |-> RetB(Str(<<Upper(l)>>))]
LabelBehaviours ==
    { UpperB,
      [l \in Labels |-> RetB(None)],
      [l \in Labels |-> RetB(Str(<<>>))],
      [UpperB EXCEPT !["a"] = RetB(None)],
      [UpperB EXCEPT !["2"] = RetB(Str(<<>>))],
      [UpperB EXCEPT !["2"] = RaiseB(CommandError("CommandError", <<"boom">>, DefaultReturncode))],
      [UpperB EXCEPT !["a"] = RaiseB(KeyboardInterrupt)] }

\* the callbacks a class leaves to its author; a callback the class does
\* not have is never run, so one value stands for it
HandleOf(cls) == IF OverridesHandle(cls) THEN HandleBehaviours ELSE {RetB(None)}
HandleLabelOf(cls) == IF OverridesHandleLabel(cls) THEN LabelBehaviours ELSE {UpperB}
ArgsOf(cls) == IF IsLabelCommand(cls) THEN LabelLists ELSE {<<>>}

\* the option strings of the base arguments, and the sets a class may
\* have as suppressed_base_arguments
BaseOptionStrings ==
    {"--version", "-v", "--verbosity", "--traceback", "--no-color", "--force-color"}
SuppressedSets == SUBSET BaseOptionStrings
\* the argument lists given to a parser taken from create_parser: each
\* base option on its own (with a label where the class needs one), no
\* argument at all, and an option the parser does not have
OptionProbes ==
    {<<"--version">>, <<"-v", "2">>, <<"--verbosity", "2">>, <<"--traceback">>,
     <<"--no-color">>, <<"--force-color">>}
Probes(cls) ==
    {p \o (IF IsLabelCommand(cls) THEN <<"a">> ELSE <<>>) : p \in OptionProbes}
        \cup {<<>>, <<"--bogus">>}

\* the keyword options a caller of call_command may pass: at most
\* MaxOptions of them
MaxOptions == 2
OptionKeys == {"verbosity", "no_color", "force_color", "traceback", "stdout", "stderr"}
Options(D, verbosity, no_color, force_color, traceback, out, err) ==
    [k \in D |-> CASE k = "verbosity" -> verbosity
                   [] k = "no_color" -> no_color
                   [] k = "force_color" -> force_color
                   [] k = "traceback" -> traceback
                   [] k = "stdout" -> out
                   [] k = "stderr" -> err]
CallOptions ==
    { Options(D, 3, nc, fc, TRUE, out, err) :
        D \in {D \in SUBSET OptionKeys : Cardinality(D) <= MaxOptions},
        nc \in BOOLEAN, fc \in BOOLEAN, out \in Buffers, err \in Buffers }

\* the process environment: NO_COLOR / FORCE_COLOR set, the standard streams
\* a terminal
EnvSet ==
    { [NO_COLOR |-> FALSE, FORCE_COLOR |-> FALSE, isatty |-> TRUE],
      [NO_COLOR |-> FALSE, FORCE_COLOR |-> FALSE, isatty |-> FALSE] }

\* the names and classes a caller registers: at most MaxRegs registrations
\* on one registry
MaxRegs == 2
RegNames == {"greet", "export"}
RegClasses == {"Cmd", "LabelCmd"}
UnknownName == "missing"

\* the argument lists given to run(): nothing, the program name alone, or
\* the program name, a sub-command token and at most MaxRest more tokens
MaxRest == 2
SubTokens == RegNames \cup {UnknownName, "-h", "--help"}
\* the files of the commands directory
Stems == {"_private", "greet", "tools"}
RestTokens == {"--traceback", "a"}
RestLists == SeqsUpTo(RestTokens, MaxRest)
RunArgvs ==
    {<<>>, <<ProgName>>} \cup {<<ProgName, t>> \o r : t \in SubTokens, r \in RestLists}
\* sys.argv of the process when run() is given nothing
SysArgvs == {<<ProgName>>, <<ProgName, "greet">>}
\* what the callbacks of a dispatched command may do
DispatchHandleOf(cls) ==
    IF OverridesHandle(cls)
    THEN {RetB(Str(<<"done", NL>>)),
          RaiseB(CommandError("CommandError", <<"boom">>, DefaultReturncode))}
    ELSE {RetB(None)}
DispatchHandleLabelOf(cls) ==
    IF OverridesHandleLabel(cls)
    THEN {UpperB, [UpperB EXCEPT !["a"] = RaiseB(KeyboardInterrupt)]}
    ELSE {UpperB}

\* ------------------------------------------------------------------ state
VARIABLES
    env,     \* the process environment
    cmd,     \* the live command instance (NoInstance: none)
    op,      \* the operation that ran last ("idle": none since the caller went on)
    inp,     \* its inputs
    res,     \* its completion: kind, value, exc, code
    trace,   \* what it did, in order
    registry,        \* the caller's CommandRegistry (NoRegistry: none)
    registrations,   \* the registrations made on it so far: name, cls, in order
    files,           \* the commands directory of the Runner
    runner           \* what the caller's last Runner.run has to do with the
                     \* directory now: "empty" (it found the directory
                     \* empty, as it still is), "grown" (it found it empty
                     \* and one file was written since), "none" (otherwise)

vars == <<env, cmd, op, inp, res, trace, registry, registrations, files, runner>>

NoInput ==
    [cls |-> "none", isType |-> FALSE, argv |-> <<>>, args |-> <<>>,
     options |-> NoOptions, hb |-> RetB(None), hl |-> UpperB,
     stdout |-> NoStream, stderr |-> NoStream, no_color |-> FALSE, force_color |-> FALSE,
     parser |-> CommandParser(<<>>, None, NoneB, "none", ""),
     name |-> "", sysargv |-> <<>>, grown |-> FALSE, suppressed |-> {}]
NoRes == [kind |-> "none", value |-> None, exc |-> NoExc, code |-> 0]

Init ==
    /\ env \in EnvSet
    /\ cmd = NoInstance
    /\ op = "idle"
    /\ inp = NoInput
    /\ res = NoRes
    /\ trace = <<>>
    /\ registry = NoRegistry
    /\ registrations = <<>>
    /\ files = NoDir
    /\ runner = "none"

St0 == [self |-> cmd, trace |-> <<>>]

\* record the completion c of the operation name
Record(name, input, c, keep) ==
    /\ op' = name
    /\ inp' = input
    /\ res' = [kind |-> c.kind, value |-> c.value, exc |-> c.exc, code |-> c.code]
    /\ trace' = c.st.trace
    /\ cmd' = IF keep THEN c.st.self ELSE cmd
    /\ UNCHANGED env

\* the completion of an operation on a command or a parser
Done(name, input, c, keep) ==
    /\ Record(name, input, c, keep)
    /\ UNCHANGED <<registry, registrations, files, runner>>

\* the caller works with one thing at a time: commands and parsers of its
\* own, a registry, or a commands directory and its Runner
Direct == ~registry.live /\ ~files.exists

\* cmd = cls(stdout=..., stderr=..., no_color=..., force_color=...)
Construct ==
    /\ Direct
    /\ op = "idle"
    /\ cmd = NoInstance
    /\ \E cls \in Classes, out \in {NoStream} \cup Buffers, err \in {NoStream} \cup Buffers,
          no_color \in BOOLEAN, force_color \in BOOLEAN :
          LET c == New(St0, cls, out, err, no_color, force_color, env)
          IN  Done("new",
                   [NoInput EXCEPT !.cls = cls, !.stdout = out, !.stderr = err,
                                   !.no_color = no_color, !.force_color = force_color],
                   c, c.kind = "return")

\* call_command(cls, *args, **options): the instance is made by the call
\* and is lost with it, so the live instance plays no part
CallCommandType ==
    /\ Direct
    /\ op = "idle"
    /\ cmd = NoInstance
    /\ \E cls \in Classes, options \in CallOptions :
       \E args \in ArgsOf(cls), hb \in HandleOf(cls), hl \in HandleLabelOf(cls) :
          Done("call_command",
               [NoInput EXCEPT !.cls = cls, !.isType = TRUE, !.args = args,
                               !.options = options, !.hb = hb, !.hl = hl],
               call_command(St0, TRUE, cls, args, options, hb, hl, env),
               FALSE)

\* what the execute method of a foreign type may do
DuckBehaviours == {RetB(Str(<<"quack">>)), RaiseB(ValueError(<<"bad">>))}

\* call_command(T, **options) with a type T that is not a command
CallCommandOtherType ==
    /\ Direct
    /\ op = "idle"
    /\ cmd = NoInstance
    /\ \E cls \in OtherTypes, options \in CallOptions :
       \E hb \in IF HasExecute(cls) THEN DuckBehaviours ELSE {RetB(None)} :
          Done("call_command",
               [NoInput EXCEPT !.cls = cls, !.isType = TRUE, !.options = options, !.hb = hb],
               call_command(St0, TRUE, cls, <<>>, options, hb, UpperB, env),
               FALSE)

\* call_command(cmd, *args, **options) on the live instance
CallCommandInstance ==
    /\ Direct
    /\ op = "idle"
    /\ cmd # NoInstance
    /\ \E options \in CallOptions :
       \E args \in ArgsOf(cmd.cls), hb \in HandleOf(cmd.cls), hl \in HandleLabelOf(cmd.cls) :
          Done("call_command",
               [NoInput EXCEPT !.cls = cmd.cls, !.isType = FALSE, !.args = args,
                               !.options = options, !.hb = hb, !.hl = hl],
               call_command(St0, FALSE, cmd.cls, args, options, hb, hl, env),
               TRUE)

\* cmd.run_from_argv([prog] + args) on the live instance
RunFromArgv ==
    /\ Direct
    /\ op = "idle"
    /\ cmd # NoInstance
    /\ \E args \in ArgLists, hb \in HandleOf(cmd.cls), hl \in HandleLabelOf(cmd.cls) :
          Done("run_from_argv",
               [NoInput EXCEPT !.cls = cmd.cls, !.argv = <<ProgName>> \o args,
                               !.hb = hb, !.hl = hl],
               run_from_argv(St0, <<ProgName>> \o args, hb, hl, env),
               TRUE)

\* CommandParser(missing_args_message=..., called_from_command_line=...)
\* given the base arguments and a positional, then parse_args(args)
MissingLabelMessage == Str(Format(LabelMissingArgsTemplate, "label"))
ParserParse ==
    /\ Direct
    /\ op = "idle"
    /\ cmd = NoInstance
    /\ \E flag \in {NoneB, Bool(FALSE), Bool(TRUE)},
          shape \in {<<None, "none">>, <<None, "+">>, <<MissingLabelMessage, "+">>},
          args \in ArgLists :
          LET parser == AddBaseArguments(NoInstance,
                            CommandParser(<<ProgName, " ", "">>, shape[1], flag, shape[2], "label"))
          IN  Done("parse_args",
                   [NoInput EXCEPT !.argv = <<ProgName>> \o args, !.parser = parser],
                   parse_args(St0, parser, args),
                   FALSE)

\* parser = cmd.create_parser(prog, ""); parser.parse_args(args) on the
\* live instance
CreateParser ==
    /\ Direct
    /\ op = "idle"
    /\ cmd # NoInstance
    /\ \E args \in Probes(cmd.cls) :
          LET parser == create_parser(cmd, ProgName, "")
          IN  Done("create_parser",
                   [NoInput EXCEPT !.cls = cmd.cls, !.argv = <<ProgName>> \o args,
                                   !.parser = parser],
                   parse_args(St0, parser, args),
                   FALSE)

\* the same on an instance of a class made with suppressed_base_arguments
CreateParserSuppressed ==
    /\ Direct
    /\ op = "idle"
    /\ cmd = NoInstance
    /\ \E cls \in Classes, suppressed \in SuppressedSets :
       \E args \in Probes(cls) :
          LET st1 == make_command(St0, cls, suppressed, env)
              parser == create_parser(st1.self, ProgName, "")
          IN  Done("create_parser",
                   [NoInput EXCEPT !.cls = cls, !.isType = TRUE, !.suppressed = suppressed,
                                   !.argv = <<ProgName>> \o args, !.parser = parser],
                   parse_args(st1, parser, args),
                   FALSE)

\* make_command(suppressed_base_arguments=...)().print_help(prog, "")
PrintHelp ==
    /\ Direct
    /\ op = "idle"
    /\ cmd = NoInstance
    /\ \E cls \in Classes, suppressed \in SuppressedSets :
          Done("print_help",
               [NoInput EXCEPT !.cls = cls, !.isType = TRUE, !.suppressed = suppressed],
               print_help(make_command(St0, cls, suppressed, env), ProgName, ""),
               FALSE)

\* the caller has seen the outcome and goes on (an embedding caller or a
\* test may catch SystemExit)
Continue ==
    /\ op # "idle"
    /\ op' = "idle"
    /\ inp' = NoInput
    /\ res' = NoRes
    /\ trace' = <<>>
    /\ UNCHANGED <<env, cmd, registry, registrations, files, runner>>

\* the caller drops its instance
Discard ==
    /\ op = "idle"
    /\ cmd # NoInstance
    /\ cmd' = NoInstance
    /\ UNCHANGED <<env, op, inp, res, trace, registry, registrations, files, runner>>

\* registry = CommandRegistry()
NewRegistry ==
    /\ op = "idle"
    /\ cmd = NoInstance
    /\ Direct
    /\ registry' = CommandRegistry
    /\ registrations' = <<>>
    /\ UNCHANGED <<env, cmd, op, inp, res, trace, files, runner>>

\* the caller drops its registry
DropRegistry ==
    /\ op = "idle"
    /\ registry.live
    /\ registry' = NoRegistry
    /\ registrations' = <<>>
    /\ UNCHANGED <<env, cmd, op, inp, res, trace, files, runner>>

\* @registry.register(name) on the definition of cls
Register ==
    /\ op = "idle"
    /\ registry.live
    /\ Len(registrations) < MaxRegs
    /\ \E name \in RegNames, cls \in RegClasses :
          LET r == register(registry, name, cls)
          IN  /\ registry' = r.reg
              /\ registrations' = Append(registrations, [name |-> name, cls |-> cls])
              /\ Record("register", [NoInput EXCEPT !.name = name, !.cls = cls],
                        Ret(St0, r.value), FALSE)
              /\ UNCHANGED <<files, runner>>

\* registry.add(name, cls)
Add ==
    /\ op = "idle"
    /\ registry.live
    /\ Len(registrations) < MaxRegs
    /\ \E name \in RegNames, cls \in RegClasses :
          LET r == add(registry, name, cls)
          IN  /\ registry' = r.reg
              /\ registrations' = Append(registrations, [name |-> name, cls |-> cls])
              /\ Record("add", [NoInput EXCEPT !.name = name, !.cls = cls],
                        Ret(St0, r.value), FALSE)
              /\ UNCHANGED <<files, runner>>

\* registry.get(name)
Get ==
    /\ op = "idle"
    /\ registry.live
    /\ \E name \in RegNames \cup {UnknownName} :
          Done("get", [NoInput EXCEPT !.name = name], Ret(St0, get(registry, name)), FALSE)

\* registry.list_commands()
ListCommands ==
    /\ op = "idle"
    /\ registry.live
    /\ Done("list_commands", NoInput, Ret(St0, list_commands(registry)), FALSE)

\* registry.run(argv)
RegistryRun ==
    /\ op = "idle"
    /\ registry.live
    /\ \E given \in RunArgvs :
       \E sysargv \in IF given = <<>> THEN SysArgvs ELSE {<<ProgName>>} :
          LET argv == IF given # <<>> THEN given ELSE sysargv
              cls == IF Len(argv) < 2 THEN NoClass ELSE get(registry, argv[2])
          IN  \E hb \in DispatchHandleOf(cls), hl \in DispatchHandleLabelOf(cls) :
                 Done("registry.run",
                      [NoInput EXCEPT !.argv = given, !.sysargv = sysargv,
                                      !.hb = hb, !.hl = hl],
                      registry_run(St0, registry, given, sysargv, hb, hl, env),
                      FALSE)

\* the commands directory is made, or removed when it is empty
MakeDir ==
    /\ op = "idle" /\ cmd = NoInstance /\ ~registry.live
    /\ ~files.exists
    /\ files' = EmptyDir
    /\ runner' = "none"
    /\ UNCHANGED <<env, cmd, op, inp, res, trace, registry, registrations>>

RemoveDir ==
    /\ op = "idle"
    /\ files = EmptyDir
    /\ files' = NoDir
    /\ runner' = "none"
    /\ UNCHANGED <<env, cmd, op, inp, res, trace, registry, registrations>>

\* a command file is written into the directory, or written anew
WriteFile ==
    /\ op = "idle"
    /\ files.exists
    /\ \E stem \in Stems, kind \in ModuleKinds :
          files' = [files EXCEPT !.mods =
                       [f \in DOMAIN @ \cup {stem} |-> IF f = stem THEN kind ELSE @[f]]]
    /\ runner' = IF runner = "empty" THEN "grown" ELSE "none"
    /\ UNCHANGED <<env, cmd, op, inp, res, trace, registry, registrations>>

\* a command file is deleted
RemoveFile ==
    /\ op = "idle"
    /\ files.exists
    /\ \E stem \in DOMAIN files.mods :
          files' = [files EXCEPT !.mods = [f \in DOMAIN @ \ {stem} |-> @[f]]]
    /\ runner' = "none"
    /\ UNCHANGED <<env, cmd, op, inp, res, trace, registry, registrations>>

\* Runner(commands_dir)._discover()
Discover ==
    /\ op = "idle" /\ cmd = NoInstance /\ ~registry.live
    /\ Done("discover", NoInput, discover(St0, files), FALSE)

\* Runner(commands_dir).run(argv)
RunnerRun ==
    /\ op = "idle" /\ cmd = NoInstance /\ ~registry.live
    /\ \E given \in RunArgvs \cup {<<ProgName, "tools">> \o r : r \in RestLists} :
       \E sysargv \in IF given = <<>> THEN SysArgvs ELSE {<<ProgName>>} :
          LET argv == IF given # <<>> THEN given ELSE sysargv
              d == discover(St0, files)
              cls == IF Len(argv) < 2 \/ d.kind # "return" THEN NoClass
                     ELSE DictGet(d.value, argv[2])
          IN  \E hb \in DispatchHandleOf(cls), hl \in DispatchHandleLabelOf(cls) :
                 /\ Record("runner.run",
                           [NoInput EXCEPT !.argv = given, !.sysargv = sysargv,
                                           !.hb = hb, !.hl = hl,
                                           !.grown = (runner = "grown")],
                           runner_run(St0, files, given, sysargv, hb, hl, env),
                           FALSE)
                 /\ runner' = IF files = EmptyDir THEN "empty" ELSE "none"
                 /\ UNCHANGED <<registry, registrations, files>>

Next ==
    \/ Construct
    \/ CallCommandType
    \/ CallCommandOtherType
    \/ CallCommandInstance
    \/ RunFromArgv
    \/ ParserParse
    \/ CreateParser
    \/ CreateParserSuppressed
    \/ PrintHelp
    \/ Continue
    \/ Discard
    \/ NewRegistry
    \/ DropRegistry
    \/ Register
    \/ Add
    \/ Get
    \/ ListCommands
    \/ RegistryRun
    \/ MakeDir
    \/ RemoveDir
    \/ WriteFile
    \/ RemoveFile
    \/ Discover
    \/ RunnerRun

Spec == Init /\ [][Next]_vars

\* ------------------------------------------------------------------ observations
\* the function f was entered during the last operation
Called(f) == \E i \in DOMAIN trace : trace[i].ev = "call" /\ trace[i].who = f
\* the exceptions that left f, and the values it returned
RaisedBy(f) ==
    {trace[i].exc : i \in {j \in DOMAIN trace :
        trace[j].ev = "done" /\ trace[j].who = f /\ trace[j].kind = "raise"}}
ReturnedBy(f) ==
    {trace[i].value : i \in {j \in DOMAIN trace :
        trace[j].ev = "done" /\ trace[j].who = f /\ trace[j].kind = "return"}}
ExitedIn(f) ==
    \E i \in DOMAIN trace : trace[i].ev = "done" /\ trace[i].who = f /\ trace[i].kind = "exit"
\* the texts written on the sink who, in order
IsWrite(who, e) == e.ev = "write" /\ e.who = who
WriteTexts(who) ==
    LET w == SelectSeq(trace, LAMBDA e : IsWrite(who, e))
    IN  [i \in 1..Len(w) |-> w[i].text]
\* the exit codes of the sys.exit calls, in order
ExitCodes ==
    LET x == SelectSeq(trace, LAMBDA e : e.ev = "exit")
    IN  [i \in 1..Len(x) |-> x[i].code]
\* the last thing the operation did was sys.exit(code), after any write
ExitedLast(code) ==
    /\ res.kind = "exit" /\ res.code = code
    /\ ExitCodes = <<code>>
    /\ trace # <<>> /\ trace[Len(trace)].ev = "exit"
NoExit == res.kind # "exit" /\ ExitCodes = <<>>
\* the exception e reached the caller of the operation
Propagated(e) == res.kind = "raise" /\ res.exc = e
\* a token of the argument list
Given(tok) == \E i \in 2..Len(inp.argv) : inp.argv[i] = tok

\* ------------------------------------------------------------------ C1
\* C1: call_command never exits the process; whatever handle raises, nothing
\* is written to the error sink and the same exception reaches the caller.
CallCommandNeverExits ==
    op = "call_command" =>
        /\ NoExit
        /\ \A e \in RaisedBy("handle") : WriteTexts("stderr") = <<>> /\ Propagated(e)

CallCommandErrorPropagated ==
    /\ op = "call_command"
    /\ \E e \in RaisedBy("handle") : e.kind = "CommandError" /\ Propagated(e)

\* ------------------------------------------------------------------ C2
\* C2 as stated: run_from_argv exits the process if and only if handle raised
\* CommandError without --traceback, or handle raised KeyboardInterrupt.
ExitOnlyOnHandleError ==
    op = "run_from_argv" =>
        (res.kind = "exit" <=>
            \/ (\E e \in RaisedBy("handle") : e.kind = "CommandError") /\ ~Given("--traceback")
            \/ KeyboardInterrupt \in RaisedBy("handle"))

\* C2 amended: run_from_argv exits the process if and only if the parser
\* exited it (a parse error, --version), or execute raised CommandError
\* (from handle or from the colour conflict) without --traceback, or handle
\* raised KeyboardInterrupt.
ExitExactlyWhen ==
    op = "run_from_argv" =>
        ((res.kind = "exit" \/ ExitCodes # <<>>) <=>
            \/ ExitedIn("parse_args")
            \/ (\E e \in RaisedBy("execute") : e.kind = "CommandError") /\ ~Given("--traceback")
            \/ KeyboardInterrupt \in RaisedBy("handle"))

ParserExitedRun ==
    /\ op = "run_from_argv"
    /\ ExitedIn("parse_args") /\ ~Called("execute")
    /\ res.kind = "exit" /\ res.code = 2

\* ------------------------------------------------------------------ C3
\* C3: when execute raises CommandError e and --traceback was not given,
\* run_from_argv writes the one message "<class of e>: <message of e>" on the
\* error sink, then exits with e.returncode; e does not reach the caller.
CommandErrorReported ==
    op = "run_from_argv" =>
        \A e \in RaisedBy("execute") :
            e.kind = "CommandError" /\ ~Given("--traceback") =>
                /\ WriteTexts("stderr") = << <<e.name, ": ">> \o e.msg >>
                /\ ExitedLast(e.returncode)
                /\ res.exc = NoExc

CommandErrorExitTwo ==
    /\ op = "run_from_argv"
    /\ \E e \in RaisedBy("execute") :
          e.kind = "CommandError" /\ e.returncode = 2 /\ res.kind = "exit" /\ res.code = 2

\* ------------------------------------------------------------------ C4
\* C4: with --traceback a CommandError raised by execute is re-raised to the
\* caller, with no write on the error sink and no exit; a KeyboardInterrupt is
\* still reported as aborted with exit code 1.
TracebackReraises ==
    op = "run_from_argv" /\ Given("--traceback") =>
        /\ \A e \in RaisedBy("execute") :
              e.kind = "CommandError" =>
                  Propagated(e) /\ WriteTexts("stderr") = <<>> /\ NoExit
        /\ KeyboardInterrupt \in RaisedBy("execute") =>
              WriteTexts("stderr") = << <<NL, "Aborted.">> >> /\ ExitedLast(1)

TracebackReraised ==
    /\ op = "run_from_argv" /\ Given("--traceback")
    /\ \E e \in RaisedBy("execute") : e.kind = "CommandError" /\ Propagated(e)

\* ------------------------------------------------------------------ C5
\* C5: a KeyboardInterrupt raised by handle is reported as aborted (a newline,
\* then "Aborted.") on the error sink with exit code 1 under run_from_argv,
\* and reaches the caller of call_command unchanged, unreported, with no exit.
InterruptAtBoundaryOnly ==
    KeyboardInterrupt \in RaisedBy("handle") =>
        /\ op = "run_from_argv" =>
              WriteTexts("stderr") = << <<NL, "Aborted.">> >> /\ ExitedLast(1)
        /\ op = "call_command" =>
              Propagated(KeyboardInterrupt) /\ WriteTexts("stderr") = <<>> /\ NoExit

InterruptAborted ==
    /\ op = "run_from_argv"
    /\ KeyboardInterrupt \in RaisedBy("handle")
    /\ res.kind = "exit"

\* ------------------------------------------------------------------ C6
\* C6: an exception raised by handle that is neither CommandError nor
\* KeyboardInterrupt reaches the caller of run_from_argv and of call_command,
\* with no write on the error sink and no exit.
OtherExceptionsPropagate ==
    op \in {"run_from_argv", "call_command"} =>
        \A e \in RaisedBy("handle") :
            e.kind \notin {"CommandError", "KeyboardInterrupt"} =>
                Propagated(e) /\ WriteTexts("stderr") = <<>> /\ NoExit

HandleLabelNotImplemented ==
    /\ op = "run_from_argv"
    /\ inp.cls = "LabelCommand"
    /\ \E e \in RaisedBy("handle_label") :
          e.kind = "NotImplementedError" /\ e \in RaisedBy("handle") /\ Propagated(e)

\* ------------------------------------------------------------------ C7
\* both colour options reached execute as true
BothColours ==
    \/ /\ op = "call_command"
       /\ GetBool(inp.options, "no_color") /\ GetBool(inp.options, "force_color")
    \/ /\ op = "run_from_argv"
       /\ Given("--no-color") /\ Given("--force-color")

\* C7 as stated: execute on a command that does not override handle raises
\* NotImplementedError, whatever the options are.
ExecuteAlwaysNotImplemented ==
    inp.cls = "BaseCommand" /\ Called("execute") =>
        \E e \in RaisedBy("execute") : e.kind = "NotImplementedError"

\* C7 amended: execute on a command that does not override handle raises
\* NotImplementedError unless no_color and force_color are both true; then it
\* raises CommandError and handle is not called.
ExecuteNotImplementedUnlessColours ==
    inp.cls = "BaseCommand" /\ Called("execute") =>
        IF BothColours
        THEN (\E e \in RaisedBy("execute") : e.kind = "CommandError") /\ ~Called("handle")
        ELSE /\ RaisedBy("execute") = {NotImplementedError(
                     <<"Subclasses of BaseCommand must implement a handle() method.">>)}
             /\ ReturnedBy("execute") = {}

ExecuteNotImplementedWithOptions ==
    /\ op = "call_command" /\ inp.cls = "BaseCommand"
    /\ Has(inp.options, "stdout") /\ Has(inp.options, "verbosity")
    /\ res.kind = "raise" /\ res.exc.kind = "NotImplementedError"

\* ------------------------------------------------------------------ C8
\* the text has the part in it
Contains(text, part) ==
    \E k \in 0..(Len(text) - Len(part)) : SubSeq(text, k + 1, k + Len(part)) = part
\* the messages CommandParser.error was given in a completion c
ErrorMessages(c) ==
    {c.st.trace[i].text : i \in {j \in DOMAIN c.st.trace : c.st.trace[j].ev = "error"}}

\* C8: on a failure with message m, a parser whose called_from_command_line
\* is true prints the message on sys.stderr and exits with a non-zero status;
\* a parser whose flag is false or None raises CommandError("Error: " + m)
\* and does not exit; and the same input fails in one mode exactly when it
\* fails in the other, with the same message.
ParserFailureByMode ==
    op = "parse_args" =>
        LET flag == inp.parser.called_from_command_line
            args == Tail(inp.argv)
            empty == [self |-> NoInstance, trace |-> <<>>]
            cli == parse_args(empty, [inp.parser EXCEPT !.called_from_command_line = Bool(TRUE)], args)
            lib == parse_args(empty, [inp.parser EXCEPT !.called_from_command_line = Bool(FALSE)], args)
        IN  /\ \A i \in DOMAIN trace :
                  trace[i].ev = "error" =>
                      IF TruthyB(flag)
                      THEN /\ res.kind = "exit" /\ res.code # 0 /\ res.exc = NoExc
                           /\ \E j \in DOMAIN trace :
                                 /\ j > i /\ trace[j].ev = "out" /\ trace[j].who = SysStderr
                                 /\ Contains(trace[j].text, trace[i].text)
                      ELSE /\ Propagated(CommandError("CommandError",
                                  <<"Error: ">> \o trace[i].text, 1))
                           /\ NoExit
            /\ (cli.kind = "exit" /\ cli.code # 0) <=> (lib.kind = "raise")
            /\ ErrorMessages(cli) = ErrorMessages(lib)
            /\ lib.kind = "raise" => lib.exc.kind = "CommandError"

UnsetFlagRaises ==
    /\ op = "parse_args"
    /\ inp.parser.called_from_command_line = NoneB
    /\ inp.argv = <<ProgName, "--bogus">>
    /\ res.kind = "raise" /\ res.exc.msg = <<"Error: ", "unrecognized arguments: ", "--bogus">>

\* ------------------------------------------------------------------ C9
\* C9: with no_color and force_color both true, the constructor raises
\* CommandError and makes no instance; and when both reach execute (from
\* call_command or from --no-color --force-color), execute raises
\* CommandError and neither handle nor handle_label is called.
ColourConflictBeforeHandle ==
    /\ op = "new" /\ inp.no_color /\ inp.force_color =>
          /\ res.kind = "raise" /\ res.exc.kind = "CommandError"
          /\ cmd = NoInstance /\ trace = <<>>
    /\ Called("execute") /\ BothColours =>
          /\ \E e \in RaisedBy("execute") : e.kind = "CommandError"
          /\ ReturnedBy("execute") = {}
          /\ ~Called("handle") /\ ~Called("handle_label")

ColourConflictOnCommandLine ==
    /\ op = "run_from_argv"
    /\ Given("--no-color") /\ Given("--force-color")
    /\ Called("execute") /\ ~Called("handle")
    /\ res.kind = "exit" /\ res.code = 1

\* ------------------------------------------------------------------ C10
\* C10: when handle returns a non-empty string s, the one text written on the
\* output sink is BEGIN; newline s newline COMMIT; if output_transaction is
\* set, and s itself if it is not.
TransactionWrapping ==
    op \in {"call_command", "run_from_argv"} =>
        \A v \in ReturnedBy("handle") :
            Truthy(v) =>
                WriteTexts("stdout") =
                    << IF output_transaction(inp.cls)
                       THEN <<"BEGIN;", NL>> \o v.s \o <<NL, "COMMIT;">>
                       ELSE v.s >>

TransactionWrapped ==
    /\ op = "call_command" /\ inp.cls = "TxCmd"
    /\ Str(<<"SELECT 1;">>) \in ReturnedBy("handle")
    /\ WriteTexts("stdout") = << <<"BEGIN;", NL, "SELECT 1;", NL, "COMMIT;">> >>

\* ------------------------------------------------------------------ C11
\* C11 as stated: the value call_command returns is the value handle
\* returned, for every command class, with or without output_transaction.
CallCommandReturnsHandleValue ==
    op = "call_command" =>
        \A v \in ReturnedBy("handle") : res.kind = "return" /\ res.value = v

\* ------------------------------------------------------------------ C12
\* the error report of run_from_argv is due: execute raised CommandError
\* without --traceback, or KeyboardInterrupt
ErrorReportDue ==
    \/ (\E e \in RaisedBy("execute") : e.kind = "CommandError") /\ ~Given("--traceback")
    \/ KeyboardInterrupt \in RaisedBy("execute")

\* C12: execute writes on the output sink exactly once when handle returns a
\* non-empty string (the wrapped text under output_transaction) and not at
\* all when handle returns None or the empty string; a run_from_argv that
\* ends in a CommandError report or an abort report writes on the error sink
\* exactly once, and any other run_from_argv does not write on it.
WritesExactlyOnce ==
    /\ Called("execute") =>
          \A v \in ReturnedBy("handle") :
              IF Truthy(v)
              THEN /\ Len(WriteTexts("stdout")) = 1
                   /\ ReturnedBy("execute") = {Str(WriteTexts("stdout")[1])}
                   /\ WriteTexts("stdout")[1] =
                          IF output_transaction(inp.cls)
                          THEN <<"BEGIN;", NL>> \o v.s \o <<NL, "COMMIT;">>
                          ELSE v.s
              ELSE WriteTexts("stdout") = <<>>
    /\ op = "run_from_argv" =>
          Len(WriteTexts("stderr")) = IF ErrorReportDue THEN 1 ELSE 0

EmptyOutputUnreported ==
    /\ op = "call_command"
    /\ ReturnedBy("handle") = {Str(<<>>)}
    /\ WriteTexts("stdout") = <<>>
    /\ res.kind = "return"

\* ------------------------------------------------------------------ C13
\* the labels the caller gave: the positional arguments of call_command,
\* or the tokens of argv that are neither options nor the value of -v
GivenLabels ==
    IF op = "call_command" THEN inp.args
    ELSE LET a == Tail(inp.argv)
             pos == {i \in DOMAIN a :
                        ~StartsWithDash(a[i]) /\ (i = 1 \/ a[i - 1] \notin VerbosityTokens)}
             idx == SelectSeq([i \in DOMAIN a |-> i], LAMBDA i : i \in pos)
         IN  [k \in DOMAIN idx |-> a[idx[k]]]

\* the labels handle_label was called with, and what it returned, in order
LabelCalls ==
    LET c == SelectSeq(trace, LAMBDA e : e.ev = "call" /\ e.who = "handle_label")
    IN  [i \in DOMAIN c |-> c[i].text[1]]
LabelResults ==
    LET d == SelectSeq(trace, LAMBDA e : e.ev = "done" /\ e.who = "handle_label"
                                            /\ e.kind = "return" /\ Truthy(e.value))
    IN  [i \in DOMAIN d |-> d[i].value.s]

\* C13: LabelCommand.handle calls handle_label once per label in the order
\* given (the calls stop at the first one that raises); when it returns, its
\* result is the non-empty results joined by one newline in that order, and
\* None, with nothing written, when every result was None or empty.
LabelHandleJoins ==
    op \in {"call_command", "run_from_argv"} /\ IsLabelCommand(inp.cls) /\ Called("handle") =>
        /\ Len(LabelCalls) <= Len(GivenLabels)
        /\ LabelCalls = SubSeq(GivenLabels, 1, Len(LabelCalls))
        /\ \A v \in ReturnedBy("handle") :
              /\ LabelCalls = GivenLabels
              /\ v = IF LabelResults = <<>> THEN None ELSE Str(Join(<<NL>>, LabelResults))
              /\ LabelResults = <<>> => WriteTexts("stdout") = <<>>
        /\ RaisedBy("handle") # {} => RaisedBy("handle") = RaisedBy("handle_label")

LabelsJoinedInOrder ==
    /\ op = "run_from_argv" /\ inp.cls = "LabelCmd"
    /\ inp.argv = <<ProgName, "a", "2">> /\ inp.hl = UpperB
    /\ LabelCalls = <<"a", "2">>
    /\ ReturnedBy("handle") = {Str(<<"A", NL, "2">>)}

\* ------------------------------------------------------------------ C14
\* the messages CommandParser.error was given, in order
ErrorTexts ==
    LET x == SelectSeq(trace, LAMBDA e : e.ev = "error")
    IN  [i \in DOMAIN x |-> x[i].text]
\* the message a LabelCommand class ends up with: its own if it sets one,
\* "Enter at least one <label>." if it does not
ExpectedMissingArgsMessage(cls) ==
    IF cls = "CustomMsgCmd" THEN <<"Give me a ", "%s", "!">>
    ELSE <<"Enter at least one ", IF cls = "LabelCmd" THEN "word" ELSE "label", ".">>

\* C14: when the parser has a missing-arguments message and is given no
\* token at all, parse_args fails at once, in its error mode, with that
\* message and no other (no generic "required" error); a LabelCommand's
\* message is "Enter at least one <label>." unless the subclass sets its own,
\* which is used as it is.
MissingArgsMessageFirst ==
    /\ op = "new" /\ IsLabelCommand(inp.cls) /\ res.kind = "return" =>
          cmd.missing_args_message = Str(ExpectedMissingArgsMessage(inp.cls))
    /\ op \in {"parse_args", "run_from_argv"} /\ Tail(inp.argv) = <<>> =>
          LET m == IF op = "parse_args" THEN inp.parser.missing_args_message
                   ELSE IF IsLabelCommand(inp.cls)
                   THEN Str(ExpectedMissingArgsMessage(inp.cls))
                   ELSE None
              cli == IF op = "parse_args" THEN TruthyB(inp.parser.called_from_command_line)
                     ELSE TRUE
          IN  Truthy(m) =>
                 /\ ErrorTexts = <<m.s>>
                 /\ ~Called("execute")
                 /\ IF cli
                    THEN /\ res.kind = "exit" /\ res.code = 2 /\ ExitCodes = <<2>>
                         /\ \E i \in DOMAIN trace :
                               /\ trace[i].ev = "out" /\ trace[i].who = SysStderr
                               /\ Contains(trace[i].text, m.s)
                    ELSE Propagated(CommandError("CommandError", <<"Error: ">> \o m.s, 1))
                         /\ NoExit

CustomMessageUntouched ==
    /\ op = "run_from_argv" /\ inp.cls = "CustomMsgCmd"
    /\ inp.argv = <<ProgName>>
    /\ ErrorTexts = << <<"Give me a ", "%s", "!">> >>
    /\ res.kind = "exit" /\ res.code = 2

\* ------------------------------------------------------------------ C15
BaseOptionKeys == {"verbosity", "traceback", "no_color", "force_color"}
\* the keyword arguments handle was called with
HandleOptions ==
    {trace[i].options : i \in {j \in DOMAIN trace :
        trace[j].ev = "call" /\ trace[j].who = "handle"}}

\* C15: the options handle receives from call_command always hold verbosity,
\* traceback, no_color and force_color; each is the caller's value when the
\* caller gave one and 1 / False / False / False when not, and every other
\* option of the caller is passed on as it is.
CallCommandDefaults ==
    op = "call_command" =>
        \A o \in HandleOptions :
            /\ DOMAIN o = BaseOptionKeys \cup DOMAIN inp.options
            /\ \A k \in DOMAIN inp.options : o[k] = inp.options[k]
            /\ ~Has(inp.options, "verbosity") => o["verbosity"] = 1
            /\ \A k \in BaseOptionKeys \ ({"verbosity"} \cup DOMAIN inp.options) : o[k] = FALSE

SuppliedVerbosityKept ==
    /\ op = "call_command" /\ inp.cls = "Cmd"
    /\ DOMAIN inp.options = {"verbosity", "no_color"}
    /\ inp.options["no_color"] = TRUE
    /\ \E o \in HandleOptions :
          /\ o["verbosity"] = 3 /\ o["no_color"] = TRUE
          /\ o["traceback"] = FALSE /\ o["force_color"] = FALSE

\* ------------------------------------------------------------------ C16
\* C16 as stated: given a type that is not a BaseCommand subclass,
\* call_command fails with a type error, and neither instantiates and
\* executes the type nor calls any handle.
CallCommandRejectsOtherTypes ==
    op = "call_command" /\ inp.isType /\ inp.cls \notin Classes =>
        /\ res.kind = "raise" /\ res.exc.kind = "TypeError"
        /\ ~(Called("__init__") /\ Called("Duck.execute"))
        /\ ~Called("handle")

\* ------------------------------------------------------------------ C17
\* the names registered so far, and the class of the last registration of n
RegisteredNames == {registrations[i].name : i \in DOMAIN registrations}
LastRegistered(n) ==
    LET last == CHOOSE i \in DOMAIN registrations :
                    /\ registrations[i].name = n
                    /\ \A j \in DOMAIN registrations : registrations[j].name = n => j <= i
    IN  registrations[last].cls
\* a comes before b in Python's order of strings
Precedes(a, b) ==
    \E i, j \in DOMAIN NameOrder : i < j /\ NameOrder[i] = a /\ NameOrder[j] = b

\* C17: after any registrations through register and add, get(n) is the
\* class of the last registration under n and None for a name never
\* registered; list_commands() holds the registered names, each once, in
\* lexicographic order; the register decorator returns the class it was
\* given, and a registration under a name already taken raises nothing.
RegistryLookup ==
    registry.live =>
        /\ \A n \in RegNames \cup {UnknownName} :
              get(registry, n) = IF n \in RegisteredNames THEN LastRegistered(n) ELSE NoClass
        /\ LET l == list_commands(registry)
           IN  /\ {l[i] : i \in DOMAIN l} = RegisteredNames
               /\ \A i, j \in DOMAIN l : i < j => Precedes(l[i], l[j])
        /\ op = "register" => res.kind = "return" /\ res.value = inp.cls
        /\ op = "add" => res.kind = "return"
        /\ op = "get" => res.value = get(registry, inp.name)
        /\ op = "list_commands" => res.value = list_commands(registry)

ReRegistrationReplaced ==
    /\ op = "get" /\ inp.name = "greet"
    /\ Len(registrations) = 2
    /\ registrations[1] = [name |-> "greet", cls |-> "Cmd"]
    /\ registrations[2] = [name |-> "greet", cls |-> "LabelCmd"]
    /\ res.value = "LabelCmd"

\* ------------------------------------------------------------------ C18
\* the argument list run() works on: argv, or sys.argv when given nothing
EffectiveArgv == IF inp.argv # <<>> THEN inp.argv ELSE inp.sysargv
\* the names on the entry lines of the usage summary, in order
ListedNames ==
    LET x == SelectSeq(trace, LAMBDA e : e.ev = "out" /\ e.who = SysStdout
                                            /\ e.text # <<>> /\ e.text[1] = "  ")
    IN  [i \in DOMAIN x |-> x[i].text[2]]
\* the usage summary was printed, and sys.exit came after it
UsagePrintedThenExit ==
    /\ \E i \in DOMAIN trace :
          trace[i].ev = "out" /\ trace[i].who = SysStdout /\ trace[i].text[1] = "Usage: "
    /\ trace # <<>> /\ trace[Len(trace)].ev = "exit"

\* C18: CommandRegistry.run exits with status 0 after printing the usage
\* summary with every registered name in sorted order when there is no
\* sub-command token or it is -h / --help, and with status 1 when the token
\* is not a registered name; either way no command is constructed, no
\* run_from_argv and no handle runs.
RegistryRunHelpOrUnknown ==
    op = "registry.run" =>
        LET argv == EffectiveArgv
            help == Len(argv) < 2 \/ argv[2] \in {"-h", "--help"}
            unknown == ~help /\ argv[2] \notin RegisteredNames
        IN  /\ help =>
                  /\ res.kind = "exit" /\ res.code = 0 /\ ExitCodes = <<0>>
                  /\ UsagePrintedThenExit
                  /\ ListedNames = sorted(RegisteredNames)
            /\ unknown => res.kind = "exit" /\ res.code = 1 /\ ExitCodes = <<1>>
            /\ help \/ unknown =>
                  ~Called("__init__") /\ ~Called("run_from_argv") /\ ~Called("handle")

HelpListsSortedNames ==
    /\ op = "registry.run" /\ inp.argv = <<ProgName, "--help">>
    /\ Len(registrations) = 2
    /\ registrations[1].name = "greet" /\ registrations[2].name = "export"
    /\ ListedNames = <<"export", "greet">>
    /\ res.kind = "exit" /\ res.code = 0

\* ------------------------------------------------------------------ C19
\* the arguments of the calls of f, in order
CallTexts(f) ==
    LET x == SelectSeq(trace, LAMBDA e : e.ev = "call" /\ e.who = f)
    IN  [i \in DOMAIN x |-> x[i].text]
\* the mapping Runner.run works on
Discovered == discover(St0, files)
\* the class the sub-command token resolves to (NoClass: none, or no token)
ResolvedClass ==
    IF Len(EffectiveArgv) < 2 \/ EffectiveArgv[2] \in {"-h", "--help"} THEN NoClass
    ELSE IF op = "registry.run"
    THEN (IF EffectiveArgv[2] \in RegisteredNames
          THEN LastRegistered(EffectiveArgv[2]) ELSE NoClass)
    ELSE IF Discovered.kind = "return" THEN DictGet(Discovered.value, EffectiveArgv[2])
    ELSE NoClass
\* argv without its sub-command token
WithoutSubcommand(argv) ==
    [i \in 1..(Len(argv) - 1) |-> IF i = 1 THEN argv[1] ELSE argv[i + 1]]

\* C19: when the sub-command token is a known name, Registry.run and
\* Runner.run construct one instance of the resolved class and call its
\* run_from_argv once, with argv[0] followed by the tokens after the
\* sub-command token in their order; the outcome is that of run_from_argv on
\* those tokens.
RunDispatchesStrippedArgv ==
    op \in {"registry.run", "runner.run"} =>
        LET resolved == ResolvedClass
        IN  resolved # NoClass =>
               /\ CallTexts("__init__") = << <<resolved>> >>
               /\ CallTexts("run_from_argv") = << WithoutSubcommand(EffectiveArgv) >>
               /\ \E i, j \in DOMAIN trace :
                     /\ i < j
                     /\ trace[i].ev = "call" /\ trace[i].who = "__init__"
                     /\ trace[j].ev = "call" /\ trace[j].who = "run_from_argv"
               /\ LET c == run_from_argv(Instantiate([self |-> NoInstance, trace |-> <<>>],
                                                      resolved, env),
                                          WithoutSubcommand(EffectiveArgv), inp.hb, inp.hl, env)
                  IN  res.kind = c.kind /\ res.code = c.code /\ res.exc = c.exc

RunnerDispatchedLabels ==
    /\ op = "runner.run"
    /\ inp.argv = <<ProgName, "greet", "a", "--traceback">>
    /\ ResolvedClass = "LabelCmd"
    /\ CallTexts("run_from_argv") = << <<ProgName, "a", "--traceback">> >>
    /\ LabelCalls = <<"a">>

\* ------------------------------------------------------------------ C20
\* the files _load_module was called on, in order
Visited ==
    LET x == CallTexts("_load_module") IN [i \in DOMAIN x |-> x[i][1]]
\* the files of the directory whose name does not start with an underscore
PublicFiles == {f \in DOMAIN files.mods : f # "_private"}
\* the names a file defines when it loads
NamesOf(f) ==
    IF files.mods[f] = "classic" THEN {f}
    ELSE IF files.mods[f] = "registry" THEN {"greet", "export"}
    ELSE IF files.mods[f] = "both" THEN {f, "greet"}
    ELSE {}
\* the names of the mapping _discover returned
DiscoveredNames ==
    UNION {DictKeys(v) : v \in ReturnedBy("_discover")}

\* C20 as stated: discovery loads the files of the directory in sorted
\* order, skipping those whose name starts with an underscore; whatever
\* exception the loading of a file raises, the error is logged, the file is
\* skipped, the names of every other file are in the mapping and discovery
\* does not raise.
DiscoveryResilientToAny ==
    Called("_discover") =>
        /\ Visited = sorted(PublicFiles)
        /\ ReturnedBy("_discover") # {}
        /\ \A f \in PublicFiles : NamesOf(f) \subseteq DiscoveredNames

\* C20 amended: discovery loads the files in sorted order, skipping those
\* whose name starts with an underscore; when loading a file raises an
\* Exception, the error is logged, the file is skipped, and, provided no
\* file raises SystemExit, every file is visited, the mapping holds exactly
\* the names of the files that loaded, and discovery returns; a SystemExit
\* raised by a file stops discovery at that file and leaves it uncaught.
DiscoveryResilientToExceptions ==
    Called("_discover") =>
        LET exits == {f \in PublicFiles : files.mods[f] = "exits"}
            broken == {f \in PublicFiles : files.mods[f] = "broken"}
            all == sorted(PublicFiles)
            logged == {trace[i].text[2] : i \in {j \in DOMAIN trace :
                          trace[j].ev = "log" /\ trace[j].text[1] = "Error loading command module '"}}
        IN  /\ Len(Visited) <= Len(all) /\ Visited = SubSeq(all, 1, Len(Visited))
            /\ RaisedBy("_discover") = {}
            /\ exits = {} =>
                  /\ Visited = all
                  /\ ReturnedBy("_discover") # {}
                  /\ DiscoveredNames = UNION {NamesOf(f) : f \in PublicFiles}
                  /\ logged = broken
            /\ exits # {} =>
                  /\ ExitedIn("_discover") /\ res.kind = "exit" /\ res.code = 3
                  /\ Visited[Len(Visited)] \in exits
                  /\ \A i \in 1..(Len(Visited) - 1) : Visited[i] \notin exits

BrokenFileSkipped ==
    /\ op = "discover"
    /\ DOMAIN files.mods = {"_private", "greet", "tools"}
    /\ files.mods["_private"] = "broken"
    /\ files.mods["greet"] = "broken" /\ files.mods["tools"] = "classic"
    /\ Visited = <<"greet", "tools">>
    /\ res.kind = "return" /\ res.value = << <<"tools", "Cmd">> >>

\* ------------------------------------------------------------------ C21
\* the assignments one loaded file makes, in order: the class named Command
\* under the file's name, then the entries of its registry
AssignmentsOf(f) ==
    IF files.mods[f] = "classic" THEN << <<f, "Cmd">> >>
    ELSE IF files.mods[f] = "registry"
    THEN << <<"export", "Cmd">>, <<"greet", "LabelCmd">> >>
    ELSE IF files.mods[f] = "both" THEN << <<f, "LabelCmd">>, <<"greet", "Cmd">> >>
    ELSE <<>>
\* the assignments of the files from number i on, in file-sort order
RECURSIVE AssignmentsFrom(_, _)
AssignmentsFrom(paths, i) ==
    IF i > Len(paths) THEN <<>>
    ELSE AssignmentsOf(paths[i]) \o AssignmentsFrom(paths, i + 1)
AllAssignments == AssignmentsFrom(sorted(PublicFiles), 1)
\* the value of the last assignment to the name n
LastAssigned(n) ==
    LET a == AllAssignments
        last == CHOOSE i \in DOMAIN a :
                    a[i][1] = n /\ \A j \in DOMAIN a : a[j][1] = n => j <= i
    IN  a[last][2]

\* C21: the mapping _discover returns is what the assignments of the
\* loadable files that are not private give when made in file-sort order,
\* in each file the class named Command (a BaseCommand subclass) under the
\* file's name first and the registry entries under their own names after
\* it: each name holds the value of the last assignment to it, and
\* _discover raises no error for a name assigned twice.
DiscoveryMergesInOrder ==
    Called("_discover") =>
        /\ RaisedBy("_discover") = {}
        /\ \A v \in ReturnedBy("_discover") :
              /\ DictKeys(v) = {AllAssignments[i][1] : i \in DOMAIN AllAssignments}
              /\ \A n \in DictKeys(v) : DictGet(v, n) = LastAssigned(n)
              /\ \A i, j \in DOMAIN v : v[i][1] = v[j][1] => i = j

RegistryEntryReplacesCommand ==
    /\ op = "discover"
    /\ DOMAIN files.mods = {"greet", "tools"}
    /\ files.mods["greet"] = "both" /\ files.mods["tools"] = "classic"
    /\ res.kind = "return"
    /\ res.value = << <<"greet", "Cmd">>, <<"tools", "Cmd">> >>

\* ------------------------------------------------------------------ C22
\* the event that ends _discover (0: none)
DiscoverEnd ==
    LET I == {i \in DOMAIN trace : trace[i].ev = "done" /\ trace[i].who = "_discover"}
    IN  IF I = {} THEN 0 ELSE CHOOSE i \in I : TRUE
\* what the run did once the mapping was there
AfterDiscovery == SubSeq(trace, DiscoverEnd + 1, Len(trace))
\* the events of a trace but its log lines, and the number of its log lines
Unlogged(tr) == SelectSeq(tr, LAMBDA e : e.ev # "log")
LogCount(tr) == Len(SelectSeq(tr, LAMBDA e : e.ev = "log"))
\* CommandRegistry.run with the same arguments on a registry that holds the
\* mapping the directory gives now
RegistryTwin ==
    registry_run([self |-> NoInstance, trace |-> <<>>],
                 [CommandRegistry EXCEPT !.commands = Discovered.value],
                 inp.argv, inp.sysargv, inp.hb, inp.hl, env)

\* C22: Runner.run makes one discovery of the directory as it is at the
\* call, whatever earlier calls found, and then does what CommandRegistry.run
\* does on a registry holding the discovered mapping: the same completion
\* (exit 0 for no token or a help token, exit 1 for an unknown name, the
\* outcome of run_from_argv for a known one) and the same calls, output and
\* exits in the same order, with one log line where the registry has one.
RunnerRunsAsRegistry ==
    op = "runner.run" =>
        LET found == Discovered
            twin == RegistryTwin
            after == AfterDiscovery
        IN  found.kind = "return" =>
               /\ CallTexts("_discover") = << <<>> >>
               /\ ReturnedBy("_discover") = {found.value}
               /\ files.exists => Visited = sorted(PublicFiles)
               /\ res = [kind |-> twin.kind, value |-> twin.value,
                         exc |-> twin.exc, code |-> twin.code]
               /\ Unlogged(after) = Unlogged(twin.st.trace)
               /\ LogCount(after) = LogCount(twin.st.trace)
\* a second Runner.run, after a file was written into the directory the
\* first one found empty: the name the first call could not resolve is
\* dispatched
AddedFileDispatched ==
    /\ op = "runner.run" /\ inp.grown
    /\ DOMAIN files.mods = {"tools"} /\ files.mods["tools"] = "classic"
    /\ EffectiveArgv = <<ProgName, "tools", "--traceback">>
    /\ CallTexts("run_from_argv") = << <<ProgName, "--traceback">> >>
    /\ Called("handle")

\* ------------------------------------------------------------------ C25
\* the missing-arguments message of the parser the operation parsed with
\* (None: it has none), and the name of its positional
ParserMessage ==
    IF op = "parse_args" THEN inp.parser.missing_args_message
    ELSE IF IsLabelCommand(inp.cls) THEN Str(ExpectedMissingArgsMessage(inp.cls))
    ELSE None
ParserMetavar == IF op = "parse_args" THEN inp.parser.metavar ELSE label(inp.cls)
GenericRequired == <<"the following arguments are required: ", ParserMetavar>>
\* every token is a flag of the base arguments
OnlyFlags(args) == \A i \in DOMAIN args : args[i] \in FlagTokens

\* C25: a parser that has a missing-arguments message reports it if and
\* only if the list handed to parse_args is empty; a list that is not empty
\* but holds flag tokens only passes that test, and the positional it lacks
\* is reported by the generic error "the following arguments are required".
CustomMessageIffEmpty ==
    op \in {"parse_args", "run_from_argv"} /\ Truthy(ParserMessage) =>
        LET args == Tail(inp.argv)
        IN  /\ (\E i \in DOMAIN ErrorTexts : ErrorTexts[i] = ParserMessage.s) <=> args = <<>>
            /\ args # <<>> /\ OnlyFlags(args) => ErrorTexts = <<GenericRequired>>
\* LabelCommand().run_from_argv(["prog", "--traceback"])
FlagOnlyGetsGenericError ==
    /\ op = "run_from_argv" /\ inp.cls = "LabelCommand"
    /\ inp.argv = <<ProgName, "--traceback">>
    /\ ErrorTexts = << <<"the following arguments are required: ", "label">> >>
    /\ res.kind = "exit" /\ res.code = ArgparseExitStatus

\* ------------------------------------------------------------------ C27
\* something was written on a sink of the command or printed
AnythingWritten == \E i \in DOMAIN trace : trace[i].ev \in {"write", "out"}

\* C27: call_command on a LabelCommand with no label (and no conflict of the
\* colour options) builds no parser and makes no missing-label check: handle
\* runs on zero labels, handle_label is never called, so nothing is raised
\* even by a class that does not override it, nothing is written, and the
\* call returns None.
ZeroLabelsUnchecked ==
    op = "call_command" /\ IsLabelCommand(inp.cls) /\ inp.args = <<>> /\ ~BothColours =>
        /\ res = [kind |-> "return", value |-> None, exc |-> NoExc, code |-> 0]
        /\ CallTexts("handle") = << <<>> >>
        /\ ~Called("handle_label")
        /\ ~Called("parse_args")
        /\ ErrorTexts = <<>>
        /\ \A f \in {"call_command", "execute", "handle"} : RaisedBy(f) = {}
        /\ ~AnythingWritten
\* call_command(LabelCommand): handle_label is not overridden
BareLabelCommandReturnsNone ==
    /\ op = "call_command" /\ inp.cls = "LabelCommand" /\ inp.isType
    /\ inp.args = <<>> /\ inp.options = NoOptions
    /\ Called("handle")
    /\ res.kind = "return" /\ res.value = None

\* ------------------------------------------------------------------ C26
\* the streams the writes on the sink who went out on
WentOutOn(tr, who) ==
    {tr[i + 1].who : i \in {j \in 1..(Len(tr) - 1) : IsWrite(who, tr[j])}}
\* the two colour options are both true
Conflict(options) == GetBool(options, "no_color") /\ GetBool(options, "force_color")

\* C26: what execute replaces on the instance stays replaced. A
\* call_command on an instance leaves it with the stdout / stderr given in
\* the call and the style of the colour option given in the call, and with
\* the sinks and the style it had before where the call gives none; its
\* writes go to those sinks; the instance keeps them while the caller goes
\* on to the next call. A call_command on a class works on an instance of
\* its own, which writes to sys.stdout unless the call gives a stdout.
OverridesPersist ==
    [][ /\ op = "idle" /\ op' = "call_command" /\ ~inp'.isType /\ ~Conflict(inp'.options) =>
             LET o == inp'.options
             IN  /\ cmd'.stdout = IF GetStream(o, "stdout")
                                  THEN OutputWrapper(o["stdout"]) ELSE cmd.stdout
                 /\ cmd'.stderr.out = IF GetStream(o, "stderr")
                                      THEN o["stderr"] ELSE cmd.stderr.out
                 /\ cmd'.style = IF GetBool(o, "force_color") THEN color_style(TRUE, env)
                                 ELSE IF GetBool(o, "no_color") THEN no_style
                                 ELSE cmd.style
                 /\ WentOutOn(trace', "stdout") \subseteq {cmd'.stdout.out}
        /\ op = "call_command" /\ op' = "idle" => cmd' = cmd
        /\ op = "idle" /\ op' = "call_command" /\ inp'.isType /\ inp'.cls \in Classes =>
             /\ cmd' = cmd
             /\ WentOutOn(trace', "stdout") \subseteq
                   {IF GetStream(inp'.options, "stdout")
                    THEN inp'.options["stdout"] ELSE SysStdout}
      ]_vars
\* a call without options on an instance that still has what an earlier
\* call replaced: on a terminal the constructor gives sys.stderr the ERROR
\* style whenever it gives the coloured style, so the coloured style next
\* to an unstyled sys.stderr is left by call_command(cmd, force_color=True)
\* on an instance without colours
LaterCallKeepsOverride ==
    /\ op = "call_command" /\ ~inp.isType /\ inp.options = NoOptions
    /\ env.isatty
    /\ cmd.style = color_style(TRUE, env)
    /\ cmd.stderr = OutputWrapper(SysStderr)

\* ------------------------------------------------------------------ C24
\* a parser error of the operation ended the process / reached the caller
\* as a CommandError
ParserErrorExits == ErrorTexts # <<>> => res.kind = "exit" /\ res.code = ArgparseExitStatus
ParserErrorRaises ==
    ErrorTexts # <<>> => res.kind = "raise" /\ res.exc.kind = "CommandError" /\ NoExit

\* C24: the mode flag of a parser from create_parser is the
\* _called_from_command_line of the instance. That is false on a new
\* instance, becomes true only by a run_from_argv on the instance, which
\* sets it before it builds its parser, and stays true as long as the
\* instance lives. So the parser of run_from_argv ends the process on an
\* error, the parser a caller takes from create_parser raises CommandError
\* unless run_from_argv ran on the instance before, and call_command builds
\* no parser and leaves the flag as it is.
ParserModeFollowsInstance ==
    [][ /\ op = "idle" /\ op' = "new" /\ res'.kind = "return" =>
             ~cmd'.called_from_command_line
        /\ ~cmd.called_from_command_line /\ cmd'.called_from_command_line =>
             op = "idle" /\ op' = "run_from_argv"
        /\ cmd.called_from_command_line /\ ~cmd'.called_from_command_line =>
             cmd' = NoInstance
        /\ op = "idle" /\ op' = "run_from_argv" =>
             cmd'.called_from_command_line /\ ParserErrorExits'
        /\ op = "idle" /\ op' = "create_parser" =>
             LET flag == IF inp'.isType THEN FALSE ELSE cmd.called_from_command_line
             IN  /\ inp'.parser.called_from_command_line = Bool(flag)
                 /\ IF flag THEN ParserErrorExits' ELSE ParserErrorRaises'
        /\ op = "idle" /\ op' = "call_command" /\ inp'.cls \in Classes =>
             /\ ~Called("parse_args")'
             /\ ~inp'.isType => cmd'.called_from_command_line = cmd.called_from_command_line
      ]_vars
\* create_parser on an instance that run_from_argv ran on before: the
\* parser ends the process on an unknown option
TerminatingParserAfterRun ==
    /\ op = "create_parser" /\ ~inp.isType
    /\ cmd.called_from_command_line
    /\ inp.parser.called_from_command_line = Bool(TRUE)
    /\ inp.argv = <<ProgName, "--bogus">>
    /\ res.kind = "exit" /\ res.code = ArgparseExitStatus

\* ------------------------------------------------------------------ C23
\* the base options, each the set of its option strings
BaseOptions ==
    {{"--version"}, {"-v", "--verbosity"}, {"--traceback"}, {"--no-color"}, {"--force-color"}}
\* what was printed on sys.stdout, as one text
RECURSIVE Concat(_)
Concat(texts) == IF texts = <<>> THEN <<>> ELSE Head(texts) \o Concat(Tail(texts))
HelpText ==
    LET x == SelectSeq(trace, LAMBDA e : e.ev = "out" /\ e.who = SysStdout)
    IN  Concat([i \in DOMAIN x |-> x[i].text])
\* the text has one of the option strings
Mentions(text, strings) == \E i \in DOMAIN text : text[i] \in strings
\* what the option at the head of the argument list leaves in the namespace
Accepted(tok) ==
    IF tok \in VersionTokens THEN res.kind = "exit" /\ res.code = 0 /\ Mentions(HelpText, {"version"})
    ELSE /\ res.kind = "return"
         /\ IF tok \in VerbosityTokens THEN res.value["verbosity"] = 2
            ELSE res.value[Dest(tok)] = TRUE

\* C23: whatever the class has in suppressed_base_arguments, the parser of
\* create_parser has every base option and parse_args accepts each of them:
\* --version prints the version and exits with 0, -v / --verbosity,
\* --traceback, --no-color and --force-color end up in the namespace, and no
\* parser error is reported. The help print_help writes leaves a base
\* option out exactly when one of its option strings is in
\* suppressed_base_arguments.
BaseOptionsKept ==
    /\ op = "create_parser" =>
          /\ \A tok \in BaseOptionStrings : Knows(inp.parser, tok)
          /\ Len(inp.argv) > 1 /\ inp.argv[2] \in BaseOptionStrings =>
                ErrorTexts = <<>> /\ Accepted(inp.argv[2])
    /\ op = "print_help" =>
          /\ res.kind = "return"
          /\ Mentions(HelpText, {"usage: "})
          /\ \A o \in BaseOptions :
                ~Mentions(HelpText, o) <=> o \cap inp.suppressed # {}
\* a class with suppressed_base_arguments = {"-v", "--traceback"}: its
\* parser takes --verbosity 2
SuppressedOptionAccepted ==
    /\ op = "create_parser" /\ inp.suppressed = {"-v", "--traceback"}
    /\ inp.cls = "Cmd" /\ inp.argv = <<ProgName, "--verbosity", "2">>
    /\ res.kind = "return" /\ res.value["verbosity"] = 2

====
